---- MODULE Spec2Model ----
(***************************************************************************)
(* The streaming chat pipeline of case-ai-can-chat/be:                     *)
(*   - generate_stream (api/routes/chat.py): the stream consumer, its      *)
(*     emit_cot_step closure (the step merger) and the background          *)
(*     producer task process_in_background;                                *)
(*   - AgentService.process_query / RAGService / guardrails / suggestions: *)
(*     the sequence of emit_callback calls of one pipeline run;            *)
(*   - CoTCacheService.update_user_data: the snapshot cache.               *)
(*                                                                         *)
(* Python values: Optional[T] is a sequence of length at most one          *)
(* (None == <<>>, a value v == <<v>>); str is a TLA+ string; list is a     *)
(* sequence; dict is a function whose DOMAIN is its key set.               *)
(***************************************************************************)
EXTENDS Integers, Sequences, FiniteSets, TLC

VARIABLES
    step_messages,        \* chat.py:178  {step_id: [description parts]}
    step_counters,        \* chat.py:179  {step_type: counter}
    save_data,            \* chat.py:471  response_text, sources, cot_steps, suggestions
    cache_data,           \* chat.py:149  the snapshot of this run
    cot_cache,            \* cot_cache_service.py:21  user_id -> snapshot
    step_queue,           \* chat.py:173  asyncio.Queue of ChainOfThoughtStep
    processing_complete,  \* chat.py:174  asyncio.Event
    result_container,     \* chat.py:175  {"result": ..., "error": ...}
    ppc,                  \* position of the producer task (process_in_background)
    cpc,                  \* position of the consumer (generate_stream body)
    run,                  \* locals of the pipeline run (query traits, documents, texts)
    out,                  \* the events yielded to the client so far, in order
    published,            \* history: every step put on step_queue, in put order
    last_call,            \* history: the arguments of the latest emit_cot_step call
    clock,                \* the latest reading of datetime.utcnow()
    lock,                 \* cot_cache_service.py:22  the holder of cot_cache._lock, or None
    threads,              \* the threads using the cache concurrently: position and locals
    writes                \* history: the update_user_data calls completed by those threads

vars == <<step_messages, step_counters, save_data, cache_data, cot_cache,
          step_queue, processing_complete, result_container, ppc, cpc, run,
          out, published, last_call, clock, lock, threads, writes>>

\* The state of the threads that use the cache next to the request's own task.
CacheClientVars == <<clock, lock, threads, writes>>

(***************************************************************************)
(* Bounds of the model.                                                    *)
(***************************************************************************)
MaxDocs == 1
MaxRespLen == 6
MaxUpdates == 3
MaxCalls == 3
MaxPolls == 2
MaxFaults == 1
MaxRerankDocs == 1

(***************************************************************************)
(* Program constants.                                                      *)
(***************************************************************************)
chunk_size == 5
RERANK_TOP_N == 5
DefaultSuggestions == 4
MinSuggestions == 3
MaxSuggestions == 6

None == <<>>
Some(v) == <<v>>

\* Python truthiness of an Optional[str]: None and "" are falsy.
Truthy(description) == description # None /\ description[1] # ""

RepeatingType == "analyzing_document"

user_id == 1

Min(a, b) == IF a < b THEN a ELSE b

(***************************************************************************)
(* str.join: "\n\n".join(parts)                                            *)
(***************************************************************************)
RECURSIVE Join(_, _)
Join(sep, parts) ==
    IF parts = <<>> THEN ""
    ELSE IF Len(parts) = 1 THEN parts[1]
    ELSE parts[1] \o sep \o Join(sep, Tail(parts))

JoinBadSeparator(parts) == Join("\n", parts)
JoinParts(parts) == Join("\n\n", parts)

(***************************************************************************)
(* emit_cot_step, chat.py:183-280                                          *)
(***************************************************************************)

\* chat.py:198  step_counters.get(step_type, 0) + 1
NextCounterStuck(step_type) == 1
NextCounter(step_type) ==
    (IF step_type \in DOMAIN step_counters THEN step_counters[step_type] ELSE 0) + 1

\* An identity rule that derives the id from the step type even when one is supplied
EffectiveStepIdIgnoresArgument(step_type, step_id) ==
    IF step_type = RepeatingType
    THEN step_type \o "_" \o ToString(NextCounter(step_type))
    ELSE step_type

\* chat.py:195-202  the effective step id
EffectiveStepId(step_type, step_id) ==
    IF step_id = None
    THEN IF step_type = RepeatingType
         THEN step_type \o "_" \o ToString(NextCounter(step_type))
         ELSE step_type
    ELSE step_id[1]

\* chat.py:198  the counters after the call
CountersAfter(step_type, step_id) ==
    IF step_id = None /\ step_type = RepeatingType
    THEN [t \in DOMAIN step_counters \cup {step_type} |->
            IF t = step_type THEN NextCounter(step_type) ELSE step_counters[t]]
    ELSE step_counters

\* dict item assignment d[k] = v
DictSet(d, k, v) == [x \in DOMAIN d \cup {k} |-> IF x = k THEN v ELSE d[x]]

\* An active update that appends to the accumulator instead of starting it anew
MessagesAfterKeepsOld(sid, step_type, description, status) ==
    IF step_type = RepeatingType THEN step_messages
    ELSE IF status \in {"active", "complete", "error"}
            /\ (status = "active" \/ sid \in DOMAIN step_messages)
    THEN DictSet(step_messages, sid,
                 (IF sid \in DOMAIN step_messages THEN step_messages[sid] ELSE <<>>)
                 \o (IF Truthy(description) THEN <<description[1]>> ELSE <<>>))
    ELSE step_messages

\* chat.py:205-219  the accumulators after the call
MessagesAfter(sid, step_type, description, status) ==
    IF step_type = RepeatingType THEN step_messages
    ELSE IF status = "active"
    THEN DictSet(step_messages, sid, IF Truthy(description) THEN <<description[1]>> ELSE <<>>)
    ELSE IF status \in {"complete", "error"} /\ sid \in DOMAIN step_messages
    THEN IF Truthy(description)
         THEN DictSet(step_messages, sid, Append(step_messages[sid], description[1]))
         ELSE step_messages
    ELSE step_messages

\* chat.py:205-219  the description the step is emitted with
EmittedDescription(sid, step_type, description, status) ==
    IF /\ step_type # RepeatingType
       /\ status \in {"complete", "error"}
       /\ sid \in DOMAIN step_messages
    THEN Some(JoinParts(MessagesAfter(sid, step_type, description, status)[sid]))
    ELSE description

\* chat.py:221-228  ChainOfThoughtStep(...)
ChainOfThoughtStep(sid, step_type, label, description, status) ==
    [id |-> sid, step_type |-> step_type, label |-> label,
     description |-> description, status |-> status]

\* chat.py:236-247 and 262-269  next(i for i, s in enumerate(steps) if s.get("id") == step_id)
ExistingStepIdx(steps, sid) ==
    IF \E i \in 1..Len(steps) : steps[i].id = sid
    THEN Some(CHOOSE i \in 1..Len(steps) :
                /\ steps[i].id = sid
                /\ \A j \in 1..(i - 1) : steps[j].id # sid)
    ELSE None

UpsertAlwaysAppend(steps, step) == Append(steps, step)
Upsert(steps, step) ==
    LET idx == ExistingStepIdx(steps, step.id)
    IN  IF idx # None
        THEN [steps EXCEPT ![idx[1]] = step]
        ELSE Append(steps, step)

\* chat.py:273  sum(1 for s in cot_steps if s["status"] == "complete")
CompletedCountAll(steps) == Len(steps)
CompletedCount(steps) ==
    Cardinality({i \in 1..Len(steps) : steps[i].status = "complete"})

\* chat.py:274  label if status == "active" else None
ActiveStepOf(label, status) == IF status = "active" THEN Some(label) ELSE None

(***************************************************************************)
(* CoTCacheService, cot_cache_service.py.  _cache is a dict: it keeps its  *)
(* keys in insertion order (the order max() scans the values in), so it is *)
(* a sequence of items [key, value].                                       *)
(***************************************************************************)
CacheKeys(cache) == {cache[i].key : i \in 1..Len(cache)}
CacheIndex(cache, uid) == CHOOSE i \in 1..Len(cache) : cache[i].key = uid

\* dict.get(uid)
CacheGet(cache, uid) ==
    IF uid \in CacheKeys(cache) THEN Some(cache[CacheIndex(cache, uid)].value) ELSE None

\* cot_cache_service.py:31  self._cache[user_id] = entry
CacheSetClobber(cache, uid, entry) == <<[key |-> uid, value |-> entry]>>
CacheSet(cache, uid, entry) ==
    IF uid \in CacheKeys(cache)
    THEN [cache EXCEPT ![CacheIndex(cache, uid)].value = entry]
    ELSE Append(cache, [key |-> uid, value |-> entry])

\* The list object created at chat.py:155 by the request of user uid.
StepListRef(uid) == [list_of |-> uid]

\* cot_cache_service.py:31-34  {**data, "last_updated": datetime.utcnow()}: the copy is
\* shallow, so the entry's cot_steps is the list object of data itself, not a copy of it.
ShallowCopy(uid, data, now) ==
    [k \in DOMAIN data \cup {"last_updated"} |->
        CASE k = "last_updated" -> now
          [] k = "cot_steps" -> StepListRef(uid)
          [] OTHER -> data[k]]

\* An update that writes a key only when the cache does not hold it yet
UpdateUserDataFirstOnly(cache, uid, data, now) ==
    IF uid \in CacheKeys(cache) THEN cache ELSE CacheSet(cache, uid, ShallowCopy(uid, data, now))

\* cot_cache_service.py:25-37  update_user_data, the body under the lock
UpdateUserData(cache, uid, data, now) == CacheSet(cache, uid, ShallowCopy(uid, data, now))

\* An emit whose save bundle appends every update, where the cached list merges by id
EmitCotStepSaveAppends(step_type, label, description, status, step_id) ==
    LET sid   == EffectiveStepId(step_type, step_id)
        desc  == EmittedDescription(sid, step_type, description, status)
        step  == ChainOfThoughtStep(sid, step_type, label, desc, status)
        steps == Upsert(cache_data.cot_steps, step)
        data  == [cache_data EXCEPT
                     !.cot_steps = steps,
                     !.total_steps = Len(steps),
                     !.completed_steps = CompletedCount(steps),
                     !.active_step = ActiveStepOf(label, status)]
    IN  /\ step_counters' = CountersAfter(step_type, step_id)
        /\ step_messages' = MessagesAfter(sid, step_type, description, status)
        /\ save_data' = [save_data EXCEPT !.cot_steps = Append(@, step)]
        /\ cache_data' = data
        /\ cot_cache' = UpdateUserData(cot_cache, user_id, data, clock)
        /\ step_queue' = Append(step_queue, step)
        /\ published' = Append(published, step)
        /\ last_call' = Some([step_type |-> step_type, label |-> label,
                              description |-> description, status |-> status,
                              step_id |-> step_id, id |-> sid])

\* chat.py:183-280  emit_cot_step
EmitCotStep(step_type, label, description, status, step_id) ==
    LET sid   == EffectiveStepId(step_type, step_id)
        desc  == EmittedDescription(sid, step_type, description, status)
        step  == ChainOfThoughtStep(sid, step_type, label, desc, status)
        steps == Upsert(cache_data.cot_steps, step)
        data  == [cache_data EXCEPT
                     !.cot_steps = steps,
                     !.total_steps = Len(steps),
                     !.completed_steps = CompletedCount(steps),
                     !.active_step = ActiveStepOf(label, status)]
    IN  /\ step_counters' = CountersAfter(step_type, step_id)
        /\ step_messages' = MessagesAfter(sid, step_type, description, status)
        /\ save_data' = [save_data EXCEPT !.cot_steps = Upsert(@, step)]
        /\ cache_data' = data
        /\ cot_cache' = UpdateUserData(cot_cache, user_id, data, clock)
        /\ step_queue' = Append(step_queue, step)
        /\ published' = Append(published, step)
        /\ last_call' = Some([step_type |-> step_type, label |-> label,
                              description |-> description, status |-> status,
                              step_id |-> step_id, id |-> sid])

(***************************************************************************)
(* The state of a request before generate_stream has run a line.           *)
(***************************************************************************)
InitialCacheData ==
    [assistant_response |-> "", cot_steps |-> <<>>, sources_count |-> 0,
     suggestions_count |-> 0, total_steps |-> 0, completed_steps |-> 0,
     active_step |-> None, processing_time_set |-> FALSE]

InitialSaveData ==
    [response_text |-> None, sources |-> 0, cot_steps |-> <<>>, suggestions |-> 0]

InitCommon ==
    /\ step_messages = <<>>
    /\ step_counters = <<>>
    /\ save_data = InitialSaveData
    /\ cache_data = InitialCacheData
    /\ cot_cache = <<>>
    /\ step_queue = <<>>
    /\ processing_complete = FALSE
    /\ result_container = [result |-> None, error |-> None]
    /\ out = <<>>
    /\ published = <<>>
    /\ last_call = None
    /\ clock = 0
    /\ writes = <<>>

(***************************************************************************)
(* SpecMerger: emit_cot_step under arbitrary update sequences, as the      *)
(* callers of this repository call it (none passes step_id).               *)
(***************************************************************************)
NonRepeatingTypes == {"analyzing", "building"}
Statuses == {"pending", "active", "complete", "error"}

\* The text of the k-th update: every non-empty description of a run is distinct.
Letter(k) == SubSeq("abcdefghijklmnop", k, k)
DescriptionsOf(k) == {None, Some(""), Some(Letter(k))}

LabelOf(step_type) ==
    CASE step_type = "analyzing" -> "Analyzing your request"
      [] step_type = "building" -> "Building context"
      [] OTHER -> "Analyzing document"

InitMerger ==
    /\ InitCommon
    /\ lock = None
    /\ threads = <<>>
    /\ ppc = "merger"
    /\ cpc = "merger"
    /\ run = [updates |-> 0, given |-> <<>>]

\* History: the non-empty descriptions given for an id since its latest active update
\* (since its first update, when no active update was made), in the order of the calls.
GivenAfter(sid, description, status) ==
    LET text == IF Truthy(description) THEN <<description[1]>> ELSE <<>>
    IN  IF status = "active" THEN DictSet(run.given, sid, text)
        ELSE IF status \in {"complete", "error"}
        THEN DictSet(run.given, sid,
                     (IF sid \in DOMAIN run.given THEN run.given[sid] ELSE <<>>) \o text)
        ELSE run.given

\* An update of a singleton (non-repeating) step type.
UpdateStep ==
    /\ ppc = "merger"
    /\ run.updates < MaxUpdates
    /\ \E step_type \in NonRepeatingTypes, status \in Statuses,
          description \in DescriptionsOf(run.updates + 1) :
          /\ EmitCotStep(step_type, LabelOf(step_type), description, status, None)
          /\ run' = [run EXCEPT !.updates = @ + 1,
                                !.given = GivenAfter(step_type, description, status)]
    /\ UNCHANGED <<processing_complete, result_container, ppc, cpc, out>>
    /\ UNCHANGED CacheClientVars

\* An update of the repeating step type (one per analysed document).
UpdateRepeating ==
    /\ ppc = "merger"
    /\ run.updates < MaxUpdates
    /\ \E status \in {"active", "complete"} :
          EmitCotStep(RepeatingType, LabelOf(RepeatingType),
                      Some(Letter(run.updates + 1)), status, None)
    /\ run' = [run EXCEPT !.updates = @ + 1]
    /\ UNCHANGED <<processing_complete, result_container, ppc, cpc, out>>
    /\ UNCHANGED CacheClientVars

NextMerger == UpdateStep \/ UpdateRepeating

SpecMerger == InitMerger /\ [][NextMerger]_vars

(***************************************************************************)
(* SpecIdentity: emit_cot_step called with and without an explicit         *)
(* step_id (chat.py:188, 193-202).  No caller of this repository passes    *)
(* one; the parameter is part of the function's signature.                 *)
(***************************************************************************)
\* Explicit ids: a fresh one, one equal to the default id of a singleton type, and one
\* equal to the id the counter gives the first repeating step.
ExplicitStepIds == {"custom", "building", RepeatingType \o "_1"}

\* A call without step_id
UpdateDefaultId ==
    /\ ppc = "merger"
    /\ run.updates < MaxUpdates
    /\ \E step_type \in {"analyzing", RepeatingType}, status \in {"active", "complete"} :
          /\ EmitCotStep(step_type, LabelOf(step_type), Some(Letter(run.updates + 1)),
                         status, None)
          /\ run' = [run EXCEPT !.updates = @ + 1,
                                !.given = IF step_type = RepeatingType THEN @
                                          ELSE GivenAfter(step_type, Some(Letter(run.updates + 1)),
                                                          status)]
    /\ UNCHANGED <<processing_complete, result_container, ppc, cpc, out>>
    /\ UNCHANGED CacheClientVars

\* A call with step_id
UpdateExplicitId ==
    /\ ppc = "merger"
    /\ run.updates < MaxUpdates
    /\ \E step_type \in {"analyzing", RepeatingType}, status \in {"active", "complete"},
          step_id \in ExplicitStepIds :
          /\ EmitCotStep(step_type, LabelOf(step_type), Some(Letter(run.updates + 1)),
                         status, Some(step_id))
          /\ run' = [run EXCEPT !.updates = @ + 1,
                                !.given = IF step_type = RepeatingType THEN @
                                          ELSE GivenAfter(step_id, Some(Letter(run.updates + 1)),
                                                          status)]
    /\ UNCHANGED <<processing_complete, result_container, ppc, cpc, out>>
    /\ UNCHANGED CacheClientVars

NextIdentity == UpdateDefaultId \/ UpdateExplicitId

SpecIdentity == InitMerger /\ [][NextIdentity]_vars

(***************************************************************************)
(* Texts of one pipeline run.  A text stands for the string the code       *)
(* builds at that place; only its identity and its length are used.        *)
(***************************************************************************)
GeneratedText(n) == SubSeq("abcdefghijklmnop", 1, n)
\* Lengths of the generated text: empty, a partial slice, one full slice, and more
TextLengths == {0, chunk_size - 1, chunk_size, MaxRespLen}
RefusalMessage == "refusal"          \* nemo_guardrails_service.py:158 safe_response
UnsafeResponse == "unsafe"           \* nemo_guardrails_service.py:271 safe_response
FallbackResponse == "fallback"       \* rag_service.py:546-567
WebSearchError == "TypeError"        \* agent_service.py:127 title[:50] on a null title
NoWebResultsContext == "No relevant web search results found."   \* agent_service.py:111
WebResultsContext == "--- Web Search Results ---"                \* agent_service.py:113
NoDocumentsContext == "No relevant documents found."             \* rag_service.py:620, 627
DocumentsContext == "[Document 1]"                               \* rag_service.py:374-378
\* agent_service.py:191-193
NoInformationContext == "No relevant information found from internal documents or web search."

\* agent_service.py:189-193  "\n\n".join(combined_context), or the placeholder when
\* the joined text is blank (every part of it is empty)
FinalContext(combined_context) ==
    IF \A i \in 1..Len(combined_context) : combined_context[i] = ""
    THEN NoInformationContext
    ELSE Join("\n\n", combined_context)

(***************************************************************************)
(* AgentService._decide_tools, agent_service.py:20-86                      *)
(***************************************************************************)
UpperCaseLetters == "ABCDEFGHIJKLMNOPQRSTUVWXYZ"
LowerCaseLetters == "abcdefghijklmnopqrstuvwxyz"

\* str.lower() of one character
LowerChar(c) ==
    IF \E i \in 1..Len(UpperCaseLetters) : SubSeq(UpperCaseLetters, i, i) = c
    THEN LET i == CHOOSE i \in 1..Len(UpperCaseLetters) : SubSeq(UpperCaseLetters, i, i) = c
         IN  SubSeq(LowerCaseLetters, i, i)
    ELSE c

\* str.lower()
RECURSIVE Lower(_)
Lower(text) ==
    IF text = "" THEN ""
    ELSE IF Len(text) = 1 THEN LowerChar(text)
    ELSE LowerChar(SubSeq(text, 1, 1)) \o Lower(SubSeq(text, 2, Len(text)))

\* keyword in text
Contains(text, keyword) ==
    \E i \in 1..(Len(text) - Len(keyword) + 1) :
        SubSeq(text, i, i + Len(keyword) - 1) = keyword

\* agent_service.py:42-51
web_search_keywords ==
    <<"search internet", "latest news", "what's new", "current events",
      "real-time", "search web", "google", "online">>

\* agent_service.py:39, 53-60  the keywords found in the lower-cased query
MatchedKeywords(query) ==
    SelectSeq(web_search_keywords, LAMBDA keyword : Contains(Lower(query), keyword))

\* agent_service.py:39-66  the tools list
DecideToolsIgnoresSetting(query, ENABLE_WEB_SEARCH) ==
    (IF MatchedKeywords(query) # <<>> THEN <<"web_search">> ELSE <<>>) \o <<"rag">>
DecideTools(query, ENABLE_WEB_SEARCH) ==
    (IF ENABLE_WEB_SEARCH /\ MatchedKeywords(query) # <<>> THEN <<"web_search">> ELSE <<>>)
        \o <<"rag">>

\* The queries of the requests: one without a trigger keyword, one that holds a
\* keyword in mixed case
PlainQuery == "What is telehealth?"
TriggerQuery == "Latest News on flu"
Queries == {PlainQuery, TriggerQuery}

(***************************************************************************)
(* The stream consumer, generate_stream, up to the start of the producer.  *)
(***************************************************************************)
\* A request with the query, in a deployment with the setting
InitRequest(query, ENABLE_WEB_SEARCH) ==
    /\ InitCommon
    /\ lock = None
    /\ threads = <<>>
    /\ ppc = "not_started"
    /\ cpc = "begin"
    /\ \E flagged \in BOOLEAN, check_raises \in BOOLEAN,
          guardrails \in BOOLEAN, llm \in BOOLEAN :
          \* the guardrails are consulted only when an LLM service is configured, and
          \* the policy patterns only by the guardrails
          /\ guardrails => llm
          /\ flagged => guardrails
          \* check_input is a function of the query, the same in both calls of
          \* generate_response: it passes the query, flags it, or raises on it
          /\ check_raises => guardrails /\ ~flagged
          /\ run = [query |-> query,
                    ENABLE_WEB_SEARCH |-> ENABLE_WEB_SEARCH,    \* core/config.py:88
                    \* agent_service.py:166  "web_search" in tools_to_use
                    web |-> \E i \in 1..Len(DecideTools(query, ENABLE_WEB_SEARCH)) :
                               DecideTools(query, ENABLE_WEB_SEARCH)[i] = "web_search",
                    flagged |-> flagged,        \* the query matches an input policy pattern
                    check_raises |-> check_raises,  \* check_input raises on the query
                    guardrails |-> guardrails,  \* guardrails enabled and initialized
                    llm |-> llm,                \* an LLM service is configured
                    docs |-> 0, reranked |-> 0, doc_i |-> 0, sources |-> 0, round |-> 1,
                    generated_text |-> "", response |-> "",
                    response_text |-> "", i |-> 0, suggestions |-> 0,
                    combined_context |-> <<>>,  \* agent_service.py:161
                    context |-> "",             \* the context of the generate_response call
                    outcomes |-> {},            \* what the stages of this run met so far
                    faults |-> 0,               \* the calls that raised so far
                    save |-> "none",            \* the background save of the message
                    persisted |-> None]         \* the message row it wrote

\* A request in a deployment with web search enabled
Init == \E query \in Queries : InitRequest(query, TRUE)

ProducerVars == <<step_messages, step_counters, save_data, cache_data, cot_cache,
                  step_queue, published, last_call>>

Yield(type, data) == out' = Append(out, [type |-> type, data |-> data])

\* chat.py:148-170  the snapshot is created and cached, the status event is yielded
StreamStart ==
    /\ cpc = "begin"
    /\ cot_cache' = UpdateUserData(cot_cache, user_id, cache_data, clock)
    /\ Yield("status", "starting")
    /\ cpc' = "spawn"
    /\ UNCHANGED <<step_messages, step_counters, save_data, cache_data, step_queue,
                   processing_complete, result_container, ppc, run, published, last_call>>
    /\ UNCHANGED CacheClientVars

\* chat.py:172-303  queue, event and containers are created and the task is started
CreateTask ==
    /\ cpc = "spawn"
    /\ ppc' = "decide_tools"
    /\ cpc' = "loop"
    /\ UNCHANGED <<ProducerVars, processing_complete, result_container, run, out>>
    /\ UNCHANGED CacheClientVars

(***************************************************************************)
(* The producer task: process_in_background -> AgentService.process_query  *)
(***************************************************************************)
Producer(from, to, step_type, label, description, status) ==
    /\ ppc = from
    /\ EmitCotStep(step_type, label, description, status, None)
    /\ ppc' = to
    /\ UNCHANGED <<processing_complete, result_container, cpc, out>>

\* agent_service.py:30-36
DecideToolsActive ==
    /\ Producer("decide_tools", "analyzing", "analyzing", "Analyzing your request",
                Some("Analyzing query"), "active")
    /\ UNCHANGED run
    /\ UNCHANGED CacheClientVars

\* agent_service.py:38-86 and 166, 173
DecideToolsComplete ==
    /\ Producer("analyzing", IF run.web THEN "web_search" ELSE "augment",
                "analyzing", "Analyzing your request", Some("Selected tools"), "complete")
    /\ UNCHANGED run
    /\ UNCHANGED CacheClientVars

\* The run with one more outcome of a stage recorded
Met(r, outcome) == [r EXCEPT !.outcomes = @ \cup {outcome}]

\* One more call of a collaborator raises
CanFail == run.faults < MaxFaults
Failed(r, outcome) == [Met(r, outcome) EXCEPT !.faults = @ + 1]

\* agent_service.py:93-99
WebSearchActive ==
    /\ Producer("web_search", "web_wait", "web_search", "Searching the web",
                Some("Search query"), "active")
    /\ UNCHANGED run
    /\ UNCHANGED CacheClientVars

\* agent_service.py:101-111  no results (or the search failed and returned [])
WebSearchEmpty ==
    /\ Producer("web_wait", "augment", "web_search", "Searching the web",
                Some("No web results found"), "complete")
    /\ run' = [Met(run, "web_empty") EXCEPT
                   !.combined_context = Append(@, NoWebResultsContext)]
    /\ UNCHANGED CacheClientVars

\* agent_service.py:113-143
WebSearchResults ==
    /\ Producer("web_wait", "augment", "web_search", "Searching the web",
                Some("Found web results"), "complete")
    /\ run' = [run EXCEPT !.combined_context = Append(@, WebResultsContext)]
    /\ UNCHANGED CacheClientVars

\* chat.py:293-297  except: result_container["error"] = str(e); finally: set()
ProcessingFailedNoSignal(message) ==
    /\ result_container' = [result_container EXCEPT !.error = Some(message)]
    /\ processing_complete' = processing_complete
    /\ ppc' = "finished"
ProcessingFailed(message) ==
    /\ result_container' = [result_container EXCEPT !.error = Some(message)]
    /\ processing_complete' = TRUE
    /\ ppc' = "finished"

\* agent_service.py:116-127  a result whose title is null: title[:50] raises, and the
\* exception leaves process_query
WebSearchRaises ==
    /\ ppc = "web_wait"
    /\ ProcessingFailed(WebSearchError)
    /\ UNCHANGED <<ProducerVars, cpc, run, out>>
    /\ UNCHANGED CacheClientVars

\* rag_service.py:70-76 (retrieve_documents passes no conversation history)
AugmentActive ==
    /\ Producer("augment", "augmenting", "augmenting", "Augmenting your query",
                Some("Original query"), "active")
    /\ UNCHANGED run
    /\ UNCHANGED CacheClientVars

\* rag_service.py:112-124
AugmentComplete ==
    /\ Producer("augmenting", "search", "augmenting", "Augmenting your query",
                Some("Enhanced query"), "complete")
    /\ UNCHANGED run
    /\ UNCHANGED CacheClientVars

\* vector_store.py:245-259
SearchActive ==
    /\ Producer("search", "searching", "searching", "Searching vector database",
                Some("Query"), "active")
    /\ UNCHANGED run
    /\ UNCHANGED CacheClientVars

\* vector_store.py:261-319 then rag_service.py:166
SearchComplete ==
    /\ \E n \in 0..MaxDocs :
          /\ Producer("searching", "retrieved", "searching", "Searching vector database",
                      Some("Search complete"), "complete")
          /\ run' = [run EXCEPT !.docs = n]
    /\ UNCHANGED CacheClientVars

\* vector_store.py:321-329 the embedding or the query raises; rag_service.py:206-208
\* retrieve_documents returns [] and rag_service.py:616 takes the no-document path
SearchErrorEscapes ==
    /\ CanFail
    /\ ppc = "searching"
    /\ ProcessingFailed("search failed")
    /\ run' = Failed(run, "search_error")
    /\ UNCHANGED <<ProducerVars, cpc, out>>
    /\ UNCHANGED CacheClientVars
SearchError ==
    /\ CanFail
    /\ Producer("searching", "generate_response", "searching",
                "Searching vector database", None, "error")
    /\ run' = [Failed(run, "search_error") EXCEPT !.docs = 0,
                                                  !.context = NoDocumentsContext]
    /\ UNCHANGED CacheClientVars

\* rag_service.py:175-201 then 616-623 / 632
Retrieved ==
    /\ Producer("retrieved", IF run.docs = 0 THEN "generate_response" ELSE "rerank",
                "retrieved", "Retrieved " \o ToString(run.docs) \o " documents",
                Some(IF run.docs = 0 THEN "No matching documents found"
                     ELSE "Found relevant documents"), "complete")
    /\ run' = IF run.docs = 0
              THEN [Met(run, "no_docs") EXCEPT !.context = NoDocumentsContext]
              ELSE run
    /\ UNCHANGED CacheClientVars

\* rag_service.py:232-238
RerankActive ==
    /\ Producer("rerank", "reranking", "reranking", "Reranking documents",
                Some("Scoring documents"), "active")
    /\ UNCHANGED run
    /\ UNCHANGED CacheClientVars

\* rag_service.py:239-321
RerankComplete ==
    /\ Producer("reranking", "build_context", "reranking", "Reranking documents",
                Some("Reranked by keyword relevance"), "complete")
    /\ run' = [run EXCEPT !.reranked = Min(run.docs, RERANK_TOP_N)]
    /\ UNCHANGED CacheClientVars

\* rag_service.py:323-331  the scoring raises: an error step, and the documents in
\* their retrieval order, cut to top_n, go on to build_context
RerankError ==
    /\ CanFail
    /\ Producer("reranking", "build_context", "reranking", "Reranking documents",
                None, "error")
    /\ run' = [Failed(run, "rerank") EXCEPT !.reranked = Min(run.docs, RERANK_TOP_N)]
    /\ UNCHANGED CacheClientVars

\* rag_service.py:350-356
BuildContextActive ==
    /\ Producer("build_context", "building", "building", "Building context",
                Some("Formatting documents"), "active")
    /\ run' = [run EXCEPT !.doc_i = 0]
    /\ UNCHANGED CacheClientVars

\* rag_service.py:359-372  one analyzing_document step per document
AnalyzeDocument ==
    /\ run.doc_i < run.reranked
    /\ Producer("building", "building", RepeatingType,
                "Analyzing document: " \o ToString(run.doc_i + 1),
                Some("Doc " \o ToString(run.doc_i + 1)), "complete")
    /\ run' = [run EXCEPT !.doc_i = @ + 1]
    /\ UNCHANGED CacheClientVars

\* rag_service.py:380-389
BuildContextComplete ==
    /\ run.doc_i = run.reranked
    /\ Producer("building", "generate_response", "building", "Building context",
                Some("documents for generation"), "complete")
    /\ run' = [run EXCEPT !.context = DocumentsContext]
    /\ UNCHANGED CacheClientVars

\* rag_service.py:366-378 formatting a document raises (a document without text or
\* score); rag_service.py:670-677 RAGService.process_query catches it and returns
\* the apology with no sources and an empty context; the agent goes on
\* (agent_service.py:176-202)
BuildContextRaises ==
    /\ CanFail
    /\ ppc = "building"
    /\ ppc' = "generate_response"
    /\ LET combined == Append(run.combined_context, "")
       IN  run' = [Failed(run, "build_context") EXCEPT
                      !.round = 2, !.generated_text = "", !.response = "",
                      !.sources = 0, !.combined_context = combined,
                      !.context = FinalContext(combined)]
    /\ UNCHANGED <<ProducerVars, processing_complete, result_container, cpc, out>>
    /\ UNCHANGED CacheClientVars

(***************************************************************************)
(* RAGService.generate_response, rag_service.py:391-544.  It runs twice    *)
(* per request: inside RAGService.process_query (round 1, rag_service.py   *)
(* 618 / 642) and again from AgentService.process_query (round 2,          *)
(* agent_service.py:197).                                                  *)
(***************************************************************************)
Returning(response) ==
    /\ ppc' = "return"
    /\ run' = [run EXCEPT !.response = response]

\* the same, in a call where a check or the generation met the outcome
ReturningAfter(outcome, response) ==
    /\ ppc' = "return"
    /\ run' = [Met(run, outcome) EXCEPT !.response = response]

\* the same, in a call where a check or the generation raised
ReturningFailed(outcome, response) ==
    /\ ppc' = "return"
    /\ run' = [Failed(run, outcome) EXCEPT !.response = response]

\* rag_service.py:411-412  no LLM service: the fallback response, no step
NoLlmService ==
    /\ ppc = "generate_response"
    /\ ~run.llm
    /\ Returning(FallbackResponse)
    /\ UNCHANGED <<ProducerVars, processing_complete, result_container, cpc, out>>
    /\ UNCHANGED CacheClientVars

\* rag_service.py:472-479, nemo_guardrails_service.py:94-105
CheckInputActive ==
    /\ run.llm /\ run.guardrails
    /\ Producer("generate_response", "checking", "checking", "Checking input safety",
                Some("Scanning message"), "active")
    /\ UNCHANGED run
    /\ UNCHANGED CacheClientVars

\* nemo_guardrails_service.py:142-159 then rag_service.py:481-488
CheckInputViolationProceeds ==
    /\ run.flagged
    /\ Producer("checking", "generate", "checking", "Checking input safety",
                Some("Policy violations detected"), "error")
    /\ run' = Met(run, "input_flagged")
    /\ UNCHANGED CacheClientVars
CheckInputViolation ==
    /\ run.flagged
    /\ ppc = "checking"
    /\ EmitCotStep("checking", "Checking input safety",
                   Some("Policy violations detected"), "error", None)
    /\ ReturningAfter("input_flagged", RefusalMessage)
    /\ UNCHANGED <<processing_complete, result_container, cpc, out>>
    /\ UNCHANGED CacheClientVars

\* nemo_guardrails_service.py:161-170
CheckInputComplete ==
    /\ ~run.flagged /\ ~run.check_raises
    /\ Producer("checking", "generate", "checking", "Checking input safety",
                Some("Input validated successfully"), "complete")
    /\ UNCHANGED run
    /\ UNCHANGED CacheClientVars

\* nemo_guardrails_service.py:172-186  the check raises: an error step without a
\* description, and the query is allowed
CheckInputRaisesBlocks ==
    /\ run.check_raises
    /\ ppc = "checking"
    /\ EmitCotStep("checking", "Checking input safety", None, "error", None)
    /\ ReturningAfter("check_input", RefusalMessage)
    /\ UNCHANGED <<processing_complete, result_container, cpc, out>>
    /\ UNCHANGED CacheClientVars
CheckInputRaises ==
    /\ run.check_raises
    /\ Producer("checking", "generate", "checking", "Checking input safety",
                None, "error")
    /\ run' = Met(run, "check_input")
    /\ UNCHANGED CacheClientVars

\* rag_service.py:472-476 guardrails off: straight to generation
SkipCheckInput ==
    /\ ppc = "generate_response"
    /\ run.llm /\ ~run.guardrails
    /\ ppc' = "generate"
    /\ UNCHANGED <<ProducerVars, processing_complete, result_container, cpc, run, out>>
    /\ UNCHANGED CacheClientVars

\* rag_service.py:491-497
GenerateActive ==
    /\ Producer("generate", "llm", "generating", "Generating response",
                Some("Processing with Nemotron 70B"), "active")
    /\ UNCHANGED run
    /\ UNCHANGED CacheClientVars

\* rag_service.py:500-521.  The text generated in round 1 is never read: the agent
\* drops rag_result["response"] (agent_service.py:176-204), so one length stands for all.
GenerateComplete ==
    /\ \E n \in IF run.round = 1 THEN {MaxRespLen} ELSE TextLengths :
          /\ Producer("llm", IF run.guardrails THEN "check_output" ELSE "generated",
                      "generating", "Generating response",
                      Some("Response generated successfully"), "complete")
          /\ run' = [run EXCEPT !.generated_text = GeneratedText(n)]
    /\ UNCHANGED CacheClientVars

\* rag_service.py:542-544  the LLM call raises: the fallback response, no step
GenerateRaisesEscapes ==
    /\ CanFail
    /\ ppc = "llm"
    /\ ProcessingFailed("generation failed")
    /\ run' = Failed(run, "generate")
    /\ UNCHANGED <<ProducerVars, cpc, out>>
    /\ UNCHANGED CacheClientVars
GenerateRaises ==
    /\ CanFail
    /\ ppc = "llm"
    /\ ReturningFailed("generate", FallbackResponse)
    /\ UNCHANGED <<ProducerVars, processing_complete, result_container, cpc, out>>
    /\ UNCHANGED CacheClientVars

\* rag_service.py:524-540 guardrails off: the generated text is the response
SkipCheckOutput ==
    /\ ppc = "generated"
    /\ Returning(run.generated_text)
    /\ UNCHANGED <<ProducerVars, processing_complete, result_container, cpc, out>>
    /\ UNCHANGED CacheClientVars

\* nemo_guardrails_service.py:205-213
CheckOutputActive ==
    /\ Producer("check_output", "validating", "validating", "Validating response",
                Some("Analyzing response"), "active")
    /\ UNCHANGED run
    /\ UNCHANGED CacheClientVars

\* The check flags the output and the generated text is returned all the same
CheckOutputHarmfulKeepsText ==
    /\ ppc = "validating"
    /\ EmitCotStep("validating", "Validating response",
                   Some("Validation issues detected"), "error", None)
    /\ ReturningAfter(IF run.round = 1 THEN "output_flagged_1" ELSE "output_flagged_2",
                      run.generated_text)
    /\ UNCHANGED <<processing_complete, result_container, cpc, out>>
    /\ UNCHANGED CacheClientVars

\* nemo_guardrails_service.py:252-272 then rag_service.py:533-537
CheckOutputHarmful ==
    /\ ppc = "validating"
    /\ EmitCotStep("validating", "Validating response",
                   Some("Validation issues detected"), "error", None)
    /\ ReturningAfter(IF run.round = 1 THEN "output_flagged_1" ELSE "output_flagged_2",
                      UnsafeResponse)
    /\ UNCHANGED <<processing_complete, result_container, cpc, out>>
    /\ UNCHANGED CacheClientVars

\* nemo_guardrails_service.py:274-284 then rag_service.py:539-540
CheckOutputComplete ==
    /\ ppc = "validating"
    /\ EmitCotStep("validating", "Validating response",
                   Some("Response validated successfully"), "complete", None)
    /\ Returning(run.generated_text)
    /\ UNCHANGED <<processing_complete, result_container, cpc, out>>
    /\ UNCHANGED CacheClientVars

\* nemo_guardrails_service.py:286-293 the check raises: no step, the response is
\* allowed; rag_service.py:539-540 the generated text is returned
CheckOutputRaises ==
    /\ CanFail
    /\ ppc = "validating"
    /\ ReturningFailed(IF run.round = 1 THEN "check_output_1" ELSE "check_output_2",
                       run.generated_text)
    /\ UNCHANGED <<ProducerVars, processing_complete, result_container, cpc, out>>
    /\ UNCHANGED CacheClientVars

\* rag_service.py:624-629 / 646-668: RAGService.process_query returns; its response is
\* not used by the agent, which calls generate_response again (agent_service.py:176-202)
RagReturns ==
    /\ ppc = "return"
    /\ run.round = 1
    /\ ppc' = "generate_response"
    /\ LET combined == Append(run.combined_context, run.context)
       IN  run' = [run EXCEPT !.round = 2, !.generated_text = "", !.response = "",
                              !.sources = run.reranked, !.combined_context = combined,
                              !.context = FinalContext(combined)]
    /\ UNCHANGED <<ProducerVars, processing_complete, result_container, cpc, out>>
    /\ UNCHANGED CacheClientVars

\* chat.py:292 and 296-297  result_container["result"] = result; finally: set()
ProcessingSucceeded(result) ==
    /\ result_container' = [result_container EXCEPT !.result = Some(result)]
    /\ processing_complete' = TRUE
    /\ ppc' = "finished"

\* agent_service.py:204  AgentService.process_query returns
AgentReturns ==
    /\ ppc = "return"
    /\ run.round = 2
    /\ ProcessingSucceeded([response |-> run.response, sources |-> run.sources])
    /\ UNCHANGED <<ProducerVars, cpc, run, out>>
    /\ UNCHANGED CacheClientVars

ProducerStep ==
    \/ DecideToolsActive \/ DecideToolsComplete
    \/ WebSearchActive \/ WebSearchEmpty \/ WebSearchResults \/ WebSearchRaises
    \/ AugmentActive \/ AugmentComplete
    \/ SearchActive \/ SearchComplete \/ SearchError \/ Retrieved
    \/ RerankActive \/ RerankComplete \/ RerankError
    \/ BuildContextActive \/ AnalyzeDocument \/ BuildContextComplete \/ BuildContextRaises
    \/ NoLlmService \/ CheckInputActive \/ CheckInputViolation \/ CheckInputComplete
    \/ CheckInputRaises
    \/ SkipCheckInput \/ GenerateActive \/ GenerateComplete \/ GenerateRaises
    \/ SkipCheckOutput \/ CheckOutputActive \/ CheckOutputHarmful \/ CheckOutputComplete
    \/ CheckOutputRaises
    \/ RagReturns \/ AgentReturns

(***************************************************************************)
(* The stream consumer, generate_stream, chat.py:302-423                   *)
(***************************************************************************)
\* The tasks of one request share one event loop: the consumer runs only while the
\* producer task is suspended in an awaited call to a collaborator (web search,
\* embedding, LLM), has not run yet, or has finished.  emit_cot_step never suspends:
\* the queue is unbounded, so put does not wait.
ProducerSuspended ==
    ppc \in {"not_started", "decide_tools", "web_wait", "searching", "llm", "finished"}

\* chat.py:304  while not processing_complete.is_set() or not step_queue.empty()
LoopConditionIgnoresQueue == ~processing_complete
LoopCondition == ~processing_complete \/ step_queue # <<>>

LoopCheck ==
    /\ ProducerSuspended
    /\ cpc = "loop"
    /\ cpc' = IF LoopCondition THEN "waiting" ELSE "after_loop"
    /\ UNCHANGED <<ProducerVars, processing_complete, result_container, ppc, run, out>>
    /\ UNCHANGED CacheClientVars

\* asyncio.Queue.get: the item at the head of the queue
QueueGetNewest(queue) == [item |-> queue[Len(queue)], rest |-> SubSeq(queue, 1, Len(queue) - 1)]
QueueGet(queue) == [item |-> Head(queue), rest |-> Tail(queue)]

\* chat.py:307-310  wait_for(step_queue.get(), 0.1) returns a step, which is yielded
GetStep ==
    /\ ProducerSuspended
    /\ cpc = "waiting"
    /\ step_queue # <<>>
    /\ step_queue' = QueueGet(step_queue).rest
    /\ Yield("cot_step", QueueGet(step_queue).item)
    /\ cpc' = "loop"
    /\ UNCHANGED <<step_messages, step_counters, save_data, cache_data, cot_cache,
                   published, last_call, processing_complete, result_container, ppc, run>>
    /\ UNCHANGED CacheClientVars

\* A timeout that leaves the loop where the code goes round it again
GetTimeoutLeavesLoop ==
    /\ ProducerSuspended
    /\ cpc = "waiting"
    /\ step_queue = <<>>
    /\ cpc' = "after_loop"
    /\ UNCHANGED <<ProducerVars, processing_complete, result_container, ppc, run, out>>
    /\ UNCHANGED CacheClientVars

\* chat.py:311-313  the wait times out: nothing is taken from the queue
GetTimeout ==
    /\ ProducerSuspended
    /\ cpc = "waiting"
    /\ step_queue = <<>>
    /\ cpc' = "loop"
    /\ UNCHANGED <<ProducerVars, processing_complete, result_container, ppc, run, out>>
    /\ UNCHANGED CacheClientVars

StreamErrorNoReturn ==
    /\ cpc = "after_loop"
    /\ ppc = "finished"
    /\ result_container.error # None
    /\ Yield("error", result_container.error[1])
    /\ cpc' = "finalize"
    /\ UNCHANGED <<ProducerVars, processing_complete, result_container, ppc, run>>
    /\ UNCHANGED CacheClientVars

\* chat.py:316-322  await background_task; the producer failed: the error event, then
\* return
StreamError ==
    /\ cpc = "after_loop"
    /\ ppc = "finished"
    /\ result_container.error # None
    /\ Yield("error", result_container.error[1])
    /\ cpc' = "closed"
    /\ UNCHANGED <<ProducerVars, processing_complete, result_container, ppc, run>>
    /\ UNCHANGED CacheClientVars

\* chat.py:324-339
TakeResult ==
    /\ cpc = "after_loop"
    /\ ppc = "finished"
    /\ result_container.error = None
    /\ run' = [run EXCEPT !.response_text = result_container.result[1].response, !.i = 0]
    /\ save_data' = [save_data EXCEPT
                        !.response_text = Some(result_container.result[1].response),
                        !.sources = result_container.result[1].sources,
                        !.suggestions = 0]
    /\ cpc' = "content"
    /\ UNCHANGED <<step_messages, step_counters, cache_data, cot_cache, step_queue,
                   published, last_call, processing_complete, result_container, ppc, out>>
    /\ UNCHANGED CacheClientVars

\* Python slice that loses its last character
SliceShort(text, i, n) == SubSeq(text, i + 1, Min(i + n - 1, Len(text)))
\* Python slice text[i : i + n] with 0-based i
Slice(text, i, n) == SubSeq(text, i + 1, Min(i + n, Len(text)))

\* chat.py:340-343  the content event of the slice at i is yielded: the generator is
\* suspended there until the event has been sent
ContentChunk ==
    /\ cpc = "content"
    /\ run.i < Len(run.response_text)
    /\ Yield("content", Slice(run.response_text, run.i, chunk_size))
    /\ cpc' = "content_yielded"
    /\ UNCHANGED <<ProducerVars, processing_complete, result_container, ppc, run>>
    /\ UNCHANGED CacheClientVars

\* chat.py:345-355  resumed: the slice is appended to the cached response, the
\* snapshot is pushed, and the loop goes on after the pacing sleep
ContentCacheUpdate ==
    /\ cpc = "content_yielded"
    /\ LET text_chunk == Slice(run.response_text, run.i, chunk_size)
           data == [cache_data EXCEPT !.assistant_response = @ \o text_chunk]
       IN  /\ cache_data' = data
           /\ cot_cache' = UpdateUserData(cot_cache, user_id, data, clock)
    /\ run' = [run EXCEPT !.i = @ + chunk_size]
    /\ cpc' = "content"
    /\ UNCHANGED <<step_messages, step_counters, save_data, step_queue, published,
                   last_call, processing_complete, result_container, ppc, out>>
    /\ UNCHANGED CacheClientVars

\* chat.py:340  the range is exhausted
ContentDone ==
    /\ cpc = "content"
    /\ run.i >= Len(run.response_text)
    /\ cpc' = "sources"
    /\ UNCHANGED <<ProducerVars, processing_complete, result_container, ppc, run, out>>
    /\ UNCHANGED CacheClientVars

\* chat.py:360-365  the sources event is yielded: the generator is suspended there
SendSources ==
    /\ cpc = "sources"
    /\ result_container.result[1].sources > 0
    /\ Yield("sources", result_container.result[1].sources)
    /\ cpc' = "sources_yielded"
    /\ UNCHANGED <<ProducerVars, processing_complete, result_container, ppc, run>>
    /\ UNCHANGED CacheClientVars

\* chat.py:367-370  resumed: the count of sources is written to the snapshot and pushed
SourcesCacheUpdate ==
    /\ cpc = "sources_yielded"
    /\ LET data == [cache_data EXCEPT !.sources_count = result_container.result[1].sources]
       IN  /\ cache_data' = data
           /\ cot_cache' = UpdateUserData(cot_cache, user_id, data, clock)
    /\ cpc' = "suggest"
    /\ UNCHANGED <<step_messages, step_counters, save_data, step_queue, published,
                   last_call, processing_complete, result_container, ppc, run, out>>
    /\ UNCHANGED CacheClientVars

\* chat.py:360  no sources: no event
NoSourcesEmptyEvent ==
    /\ cpc = "sources"
    /\ result_container.result[1].sources = 0
    /\ Yield("sources", 0)
    /\ cpc' = "suggest"
    /\ UNCHANGED <<ProducerVars, processing_complete, result_container, ppc, run>>
    /\ UNCHANGED CacheClientVars
NoSources ==
    /\ cpc = "sources"
    /\ result_container.result[1].sources = 0
    /\ cpc' = "suggest"
    /\ UNCHANGED <<ProducerVars, processing_complete, result_container, ppc, run, out>>
    /\ UNCHANGED CacheClientVars

Consumer(from, to, step_type, label, description, status) ==
    /\ cpc = from
    /\ EmitCotStep(step_type, label, description, status, None)
    /\ cpc' = to
    /\ UNCHANGED <<processing_complete, result_container, ppc, out>>

\* chat.py:377-384, suggestions_service.py:45-51
SuggestionsActive ==
    /\ Consumer("suggest", IF run.llm THEN "suggest_llm" ELSE "suggest_no_llm",
                "suggestions", "Generating follow-up suggestions",
                Some("Analyzing conversation"), "active")
    /\ UNCHANGED run
    /\ UNCHANGED CacheClientVars

\* suggestions_service.py:53-61  no LLM service: the default suggestions
SuggestionsNoLlm ==
    /\ Consumer("suggest_no_llm", "drain", "suggestions",
                "Generating follow-up suggestions", None, "complete")
    /\ run' = [run EXCEPT !.suggestions = DefaultSuggestions]
    /\ UNCHANGED CacheClientVars

\* suggestions_service.py:107-123 and 165-173 (between 3 and 6 suggestions)
SuggestionsComplete ==
    /\ \E n \in {MinSuggestions, MaxSuggestions} :
          /\ Consumer("suggest_llm", "drain", "suggestions",
                      "Generating follow-up suggestions",
                      Some("Generated suggestions"), "complete")
          /\ run' = [run EXCEPT !.suggestions = n]
    /\ UNCHANGED CacheClientVars

\* A failure of the suggestions that fails the stream: the error event, and the end
SuggestionsErrorFailsStream ==
    /\ CanFail
    /\ cpc = "suggest_llm"
    /\ Yield("error", "suggestions failed")
    /\ cpc' = "closed"
    /\ run' = Failed(run, "suggestions")
    /\ UNCHANGED <<ProducerVars, processing_complete, result_container, ppc>>
    /\ UNCHANGED CacheClientVars

\* suggestions_service.py:125-133  the LLM call raises: the default suggestions
SuggestionsError ==
    /\ CanFail
    /\ Consumer("suggest_llm", "drain", "suggestions",
                "Generating follow-up suggestions", None, "error")
    /\ run' = [Failed(run, "suggestions") EXCEPT !.suggestions = DefaultSuggestions]
    /\ UNCHANGED CacheClientVars

\* chat.py:387  while not step_queue.empty()
DrainConditionNever == FALSE
DrainCondition == step_queue # <<>>

\* chat.py:387-390  the steps of the suggestions stage are yielded
DrainStep ==
    /\ cpc = "drain"
    /\ DrainCondition
    /\ step_queue' = QueueGet(step_queue).rest
    /\ Yield("cot_step", QueueGet(step_queue).item)
    /\ UNCHANGED <<step_messages, step_counters, save_data, cache_data, cot_cache,
                   published, last_call, processing_complete, result_container, ppc,
                   cpc, run>>
    /\ UNCHANGED CacheClientVars

\* chat.py:392-396  the queue is empty; the suggestions are kept for the save and the
\* suggestions event is yielded
SendSuggestions ==
    /\ cpc = "drain"
    /\ ~DrainCondition
    /\ IF run.suggestions > 0
       THEN /\ save_data' = [save_data EXCEPT !.suggestions = run.suggestions]
            /\ Yield("suggestions", run.suggestions)
            /\ cpc' = "suggestions_yielded"
       ELSE /\ UNCHANGED <<save_data, out>>
            /\ cpc' = "finalize"
    /\ UNCHANGED <<step_messages, step_counters, step_queue, published, last_call,
                   cache_data, cot_cache, processing_complete, result_container, ppc, run>>
    /\ UNCHANGED CacheClientVars

\* chat.py:398-401  resumed: the count of suggestions is written to the snapshot and pushed
SuggestionsCacheUpdate ==
    /\ cpc = "suggestions_yielded"
    /\ LET data == [cache_data EXCEPT !.suggestions_count = run.suggestions]
       IN  /\ cache_data' = data
           /\ cot_cache' = UpdateUserData(cot_cache, user_id, data, clock)
    /\ cpc' = "finalize"
    /\ UNCHANGED <<step_messages, step_counters, save_data, step_queue, published,
                   last_call, processing_complete, result_container, ppc, run, out>>
    /\ UNCHANGED CacheClientVars

\* A consumer that sends the done event before it records the processing time
StreamDoneBeforeTiming ==
    /\ cpc = "finalize"
    /\ IF out # <<>> /\ out[Len(out)].type = "done"
       THEN /\ cache_data' = [cache_data EXCEPT !.processing_time_set = TRUE]
            /\ cot_cache' = UpdateUserData(cot_cache, user_id, cache_data', clock)
            /\ cpc' = "closed"
            /\ UNCHANGED out
       ELSE /\ Yield("done", "")
            /\ UNCHANGED <<cache_data, cot_cache, cpc>>
    /\ UNCHANGED <<step_messages, step_counters, save_data, step_queue, published,
                   last_call, processing_complete, result_container, ppc, run>>
    /\ UNCHANGED CacheClientVars

\* chat.py:407-418  the processing time, then the done event
StreamDone ==
    /\ cpc = "finalize"
    /\ LET data == IF cache_data.cot_steps # <<>>
                   THEN [cache_data EXCEPT !.processing_time_set = TRUE]
                   ELSE cache_data
       IN  /\ cache_data' = data
           /\ cot_cache' = IF cache_data.cot_steps # <<>>
                           THEN UpdateUserData(cot_cache, user_id, data, clock)
                           ELSE cot_cache
    /\ Yield("done", "")
    /\ cpc' = "closed"
    /\ UNCHANGED <<step_messages, step_counters, save_data, step_queue, published,
                   last_call, processing_complete, result_container, ppc, run>>
    /\ UNCHANGED CacheClientVars

\* chat.py:478-507  generate_with_save: the generator is exhausted; the save is
\* scheduled when a response text was collected
ScheduleSaveAlways ==
    /\ cpc = "closed"
    /\ run.save = "none"
    /\ run' = [run EXCEPT !.save = "scheduled"]
    /\ UNCHANGED <<ProducerVars, processing_complete, result_container, ppc, cpc, out>>
    /\ UNCHANGED CacheClientVars
ScheduleSave ==
    /\ cpc = "closed"
    /\ run.save = "none"
    /\ run' = [run EXCEPT !.save = IF Truthy(save_data.response_text)
                                   THEN "scheduled" ELSE "skipped"]
    /\ UNCHANGED <<ProducerVars, processing_complete, result_container, ppc, cpc, out>>
    /\ UNCHANGED CacheClientVars

\* chat.py:31-66  save_assistant_message_bg: the message is added and committed, or
\* the exception is caught and logged
SaveAssistantMessageBg ==
    /\ run.save = "scheduled"
    /\ \E committed \in BOOLEAN :
          run' = IF committed
                 THEN [run EXCEPT !.save = "saved",
                                  !.persisted = Some([content |-> save_data.response_text[1],
                                                      sources |-> save_data.sources,
                                                      chain_of_thought_steps |-> save_data.cot_steps,
                                                      suggestions |-> save_data.suggestions])]
                 ELSE [run EXCEPT !.save = "failed"]
    /\ UNCHANGED <<ProducerVars, processing_complete, result_container, ppc, cpc, out>>
    /\ UNCHANGED CacheClientVars

ConsumerCommon ==
    \/ ScheduleSave \/ SaveAssistantMessageBg
    \/ StreamStart \/ CreateTask
    \/ LoopCheck \/ GetStep \/ GetTimeout
    \/ StreamError \/ TakeResult
    \/ ContentChunk \/ ContentCacheUpdate \/ ContentDone
    \/ SendSources \/ SourcesCacheUpdate \/ NoSources
    \/ SuggestionsActive \/ SuggestionsNoLlm
    \/ DrainStep \/ SendSuggestions \/ SuggestionsCacheUpdate \/ StreamDone

ConsumerStep == ConsumerCommon \/ SuggestionsComplete \/ SuggestionsError

Next == ProducerStep \/ ConsumerStep

Spec == Init /\ [][Next]_vars

(***************************************************************************)
(* FairSpec: the request in a deployment without an LLM service            *)
(* (rag_service.py:411, suggestions_service.py:53): every stage up to      *)
(* generation runs, generation returns the fallback response.  The event   *)
(* loop keeps running whichever task is ready, and every awaited call      *)
(* returns or raises (the queue poll and the collaborators have timeouts). *)
(***************************************************************************)
InitNoLlm == Init /\ ~run.llm

ProducerStepNoLlm ==
    \/ DecideToolsActive \/ DecideToolsComplete
    \/ WebSearchActive \/ WebSearchEmpty \/ WebSearchResults \/ WebSearchRaises
    \/ AugmentActive \/ AugmentComplete
    \/ SearchActive \/ SearchComplete \/ SearchError \/ Retrieved
    \/ RerankActive \/ RerankComplete
    \/ BuildContextActive \/ AnalyzeDocument \/ BuildContextComplete
    \/ NoLlmService \/ RagReturns \/ AgentReturns

NextNoLlm == ProducerStepNoLlm \/ ConsumerCommon

FairSpec == InitNoLlm /\ [][NextNoLlm]_vars /\ WF_vars(NextNoLlm)

(***************************************************************************)
(* SpecTools: the request without an LLM service, for every query and both *)
(* values of ENABLE_WEB_SEARCH.                                            *)
(***************************************************************************)
InitTools ==
    /\ \E query \in Queries, ENABLE_WEB_SEARCH \in BOOLEAN :
          InitRequest(query, ENABLE_WEB_SEARCH)
    /\ ~run.llm

SpecTools == InitTools /\ [][NextNoLlm]_vars

(***************************************************************************)
(* SpecDisconnect: the request without an LLM service whose client may go  *)
(* away.  The server cancels the response: CancelledError (or GeneratorExit*)
(* at a yield) is raised where the generator is suspended.  It is a        *)
(* BaseException: neither except Exception clause (chat.py:420, 487)       *)
(* catches it, and the generators end there.  The producer task is a       *)
(* separate task and is not cancelled.                                     *)
(***************************************************************************)
ClientDisconnects ==
    /\ cpc \notin {"begin", "closed", "cancelled"}
    /\ out # <<>>
    /\ cpc' = "cancelled"
    /\ UNCHANGED <<ProducerVars, processing_complete, result_container, ppc, run, out>>
    /\ UNCHANGED CacheClientVars

NextDisconnect == ProducerStepNoLlm \/ ConsumerCommon \/ ClientDisconnects

SpecDisconnect == InitNoLlm /\ [][NextDisconnect]_vars

(***************************************************************************)
(* SpecCache: CoTCacheService used by concurrent threads.  Each thread     *)
(* calls update_user_data (a streaming request pushing its snapshot),      *)
(* get_latest_data (the /realtime/latest handler, cot_realtime.py:25) or   *)
(* get_stats (cot_realtime.py:69); a call is: take the lock, run the body, *)
(* release the lock.                                                       *)
(***************************************************************************)
CacheThreads == {"t1", "t2"}
OtherUser == 2
Users == {user_id, OtherUser}

\* datetime.min, the key of an entry without last_updated (cot_cache_service.py:60)
MinTime == -1

\* datetime.utcnow(): the wall clock.  Successive readings do not decrease here, and
\* two readings may be equal (a coarse clock).
Utcnow == {clock, clock + 1}

\* The snapshot a request pushes once it has streamed k characters of its response
\* (chat.py:346-348).
SnapshotOf(k) == [InitialCacheData EXCEPT !.assistant_response = GeneratedText(k)]

\* cot_cache_service.py:60  key=lambda x: x.get("last_updated", datetime.min)
LastUpdatedOf(entry) ==
    IF "last_updated" \in DOMAIN entry THEN entry.last_updated ELSE MinTime

\* cot_cache_service.py:54-63  max() returns the first of the maximal values
GetLatestData(cache) ==
    IF cache = <<>> THEN None
    ELSE Some(cache[CHOOSE i \in 1..Len(cache) :
                 /\ \A j \in 1..Len(cache) :
                       LastUpdatedOf(cache[j].value) <= LastUpdatedOf(cache[i].value)
                 /\ \A j \in 1..(i - 1) :
                       LastUpdatedOf(cache[j].value) < LastUpdatedOf(cache[i].value)].value)

\* cot_cache_service.py:75-78
GetStats(cache) == [cached_users |-> Len(cache), total_entries |-> Len(cache)]

IdleThread == [pc |-> "idle", op |-> "none", uid |-> 0, data |-> None, result |-> None]

InitCache ==
    /\ InitCommon
    /\ lock = None
    /\ threads = [t \in CacheThreads |-> IdleThread]
    /\ ppc = "cache"
    /\ cpc = "cache"
    /\ run = [calls |-> 0]

RequestVars == <<step_messages, step_counters, save_data, cache_data, step_queue,
                 processing_complete, result_container, ppc, cpc, out, published,
                 last_call>>

\* A streaming request calls cot_cache.update_user_data(user_id, cache_data)
CallUpdateUserData(t) ==
    /\ threads[t].pc = "idle"
    /\ run.calls < MaxCalls
    /\ run' = [run EXCEPT !.calls = @ + 1]
    /\ \E uid \in Users :
          threads' = [threads EXCEPT ![t] = [@ EXCEPT !.pc = "acquire", !.op = "update",
                                                     !.uid = uid,
                                                     !.data = Some(SnapshotOf(run.calls + 1)),
                                                     !.result = None]]
    /\ UNCHANGED <<RequestVars, cot_cache, clock, lock, writes>>

\* cot_realtime.py:25  cot_cache.get_latest_data()
CallGetLatestData(t) ==
    /\ threads[t].pc = "idle"
    /\ run.calls < MaxCalls
    /\ run' = [run EXCEPT !.calls = @ + 1]
    /\ threads' = [threads EXCEPT ![t] = [@ EXCEPT !.pc = "acquire", !.op = "latest",
                                                  !.result = None]]
    /\ UNCHANGED <<RequestVars, cot_cache, clock, lock, writes>>

\* cot_realtime.py:69  cot_cache.get_stats()
CallGetStats(t) ==
    /\ threads[t].pc = "idle"
    /\ run.calls < MaxCalls
    /\ run' = [run EXCEPT !.calls = @ + 1]
    /\ threads' = [threads EXCEPT ![t] = [@ EXCEPT !.pc = "acquire", !.op = "stats",
                                                  !.result = None]]
    /\ UNCHANGED <<RequestVars, cot_cache, clock, lock, writes>>

\* A lock that admits a second holder
AcquireLockBarging(t) ==
    /\ threads[t].pc = "acquire"
    /\ lock' = Some(t)
    /\ threads' = [threads EXCEPT ![t].pc = "locked"]
    /\ UNCHANGED <<RequestVars, run, cot_cache, clock, writes>>

\* with self._lock:  (entry)
AcquireLock(t) ==
    /\ threads[t].pc = "acquire"
    /\ lock = None
    /\ lock' = Some(t)
    /\ threads' = [threads EXCEPT ![t].pc = "locked"]
    /\ UNCHANGED <<RequestVars, run, cot_cache, clock, writes>>

\* cot_cache_service.py:31-37
UpdateUserDataBody(t) ==
    /\ threads[t].pc = "locked"
    /\ threads[t].op = "update"
    /\ \E now \in Utcnow :
          /\ clock' = now
          /\ cot_cache' = UpdateUserData(cot_cache, threads[t].uid, threads[t].data[1], now)
          /\ writes' = Append(writes, [uid |-> threads[t].uid, data |-> threads[t].data[1],
                                       now |-> now])
    /\ threads' = [threads EXCEPT ![t].pc = "release"]
    /\ UNCHANGED <<RequestVars, run, lock>>

\* cot_cache_service.py:54-63
GetLatestDataBody(t) ==
    /\ threads[t].pc = "locked"
    /\ threads[t].op = "latest"
    /\ threads' = [threads EXCEPT ![t] = [@ EXCEPT !.pc = "release",
                                                  !.result = GetLatestData(cot_cache)]]
    /\ UNCHANGED <<RequestVars, run, cot_cache, clock, lock, writes>>

\* cot_cache_service.py:75-78
GetStatsBody(t) ==
    /\ threads[t].pc = "locked"
    /\ threads[t].op = "stats"
    /\ threads' = [threads EXCEPT ![t] = [@ EXCEPT !.pc = "release",
                                                  !.result = Some(GetStats(cot_cache))]]
    /\ UNCHANGED <<RequestVars, run, cot_cache, clock, lock, writes>>

\* with self._lock:  (exit), then the call returns
ReleaseLock(t) ==
    /\ threads[t].pc = "release"
    /\ lock = Some(t)
    /\ lock' = None
    /\ threads' = [threads EXCEPT ![t].pc = "idle"]
    /\ UNCHANGED <<RequestVars, run, cot_cache, clock, writes>>

NextCache ==
    \E t \in CacheThreads :
        \/ CallUpdateUserData(t) \/ CallGetLatestData(t) \/ CallGetStats(t)
        \/ AcquireLock(t)
        \/ UpdateUserDataBody(t) \/ GetLatestDataBody(t) \/ GetStatsBody(t)
        \/ ReleaseLock(t)

SpecCache == InitCache /\ [][NextCache]_vars

(***************************************************************************)
(* SpecLock: the five methods of CoTCacheService called by concurrent      *)
(* threads.  get_user_data and clear_user_data have no caller in the       *)
(* routes; they are public methods of the service and take the same lock.  *)
(***************************************************************************)
\* cot_cache_service.py:68-69  del self._cache[user_id] when the key is present
ClearUserData(cache, uid) == SelectSeq(cache, LAMBDA e : e.key # uid)

\* cot_cache.get_user_data(user_id)
CallGetUserData(t) ==
    /\ threads[t].pc = "idle"
    /\ run.calls < MaxCalls
    /\ run' = [run EXCEPT !.calls = @ + 1]
    /\ \E uid \in Users :
          threads' = [threads EXCEPT ![t] = [@ EXCEPT !.pc = "acquire", !.op = "get",
                                                     !.uid = uid, !.result = None]]
    /\ UNCHANGED <<RequestVars, cot_cache, clock, lock, writes>>

\* cot_cache.clear_user_data(user_id)
CallClearUserData(t) ==
    /\ threads[t].pc = "idle"
    /\ run.calls < MaxCalls
    /\ run' = [run EXCEPT !.calls = @ + 1]
    /\ \E uid \in Users :
          threads' = [threads EXCEPT ![t] = [@ EXCEPT !.pc = "acquire", !.op = "clear",
                                                     !.uid = uid, !.result = None]]
    /\ UNCHANGED <<RequestVars, cot_cache, clock, lock, writes>>

\* cot_cache_service.py:44-45
GetUserDataBody(t) ==
    /\ threads[t].pc = "locked"
    /\ threads[t].op = "get"
    /\ threads' = [threads EXCEPT ![t] = [@ EXCEPT !.pc = "release",
                                                  !.result = CacheGet(cot_cache, threads[t].uid)]]
    /\ UNCHANGED <<RequestVars, run, cot_cache, clock, lock, writes>>

\* cot_cache_service.py:67-70
ClearUserDataBody(t) ==
    /\ threads[t].pc = "locked"
    /\ threads[t].op = "clear"
    /\ cot_cache' = ClearUserData(cot_cache, threads[t].uid)
    /\ threads' = [threads EXCEPT ![t].pc = "release"]
    /\ UNCHANGED <<RequestVars, run, clock, lock, writes>>

\* The statements a thread runs inside `with self._lock:`, and the exit of the block
CriticalSection(t) ==
    \/ UpdateUserDataBody(t) \/ GetUserDataBody(t) \/ GetLatestDataBody(t)
    \/ ClearUserDataBody(t) \/ GetStatsBody(t)
    \/ ReleaseLock(t)

NextLock ==
    \E t \in CacheThreads :
        \/ CallUpdateUserData(t) \/ CallGetUserData(t) \/ CallGetLatestData(t)
        \/ CallClearUserData(t) \/ CallGetStats(t)
        \/ AcquireLock(t)
        \/ UpdateUserDataBody(t) \/ GetUserDataBody(t) \/ GetLatestDataBody(t)
        \/ ClearUserDataBody(t) \/ GetStatsBody(t)
        \/ ReleaseLock(t)

SpecLock == InitCache /\ [][NextLock]_vars

(***************************************************************************)
(* SpecRerank: the scoring loop and the sort of RAGService.rerank_documents *)
(* (rag_service.py:242-285) on a query and a list of retrieved documents.  *)
(* Raw scores are in thousandths, weights in tenths, and a rerank_score is *)
(* in units of 1 / (10000 * n), n the number of query terms (at least 1),  *)
(* so that the arithmetic of the code is exact on integers.                *)
(***************************************************************************)
WordChars ==
    LET chars == "abcdefghijklmnopqrstuvwxyzABCDEFGHIJKLMNOPQRSTUVWXYZ0123456789_"
    IN  {SubSeq(chars, i, i) : i \in 1..Len(chars)}

\* re.findall(r"\b\w+\b", text): the maximal runs of word characters
Terms(text) ==
    LET word   == {i \in 1..Len(text) : SubSeq(text, i, i) \in WordChars}
        starts == {i \in word : (i - 1) \notin word}
        End(i) == CHOOSE j \in word : /\ j >= i
                                      /\ (j + 1) \notin word
                                      /\ \A k \in i..j : k \in word
    IN  {SubSeq(text, i, End(i)) : i \in starts}

\* rag_service.py:245, 255  max(len(query_terms), 1)
TermCount(query) ==
    IF Terms(Lower(query)) = {} THEN 1 ELSE Cardinality(Terms(Lower(query)))

\* rag_service.py:250-254  len(query_terms.intersection(doc_terms))
Overlap(query, doc) == Cardinality(Terms(Lower(query)) \cap Terms(Lower(doc.text)))

\* rag_service.py:258-261  the number of additions of 0.15
ExactMatches(query, doc) ==
    Cardinality({term \in Terms(query) :
                    Len(term) > 2 /\ Contains(Lower(doc.text), Lower(term))})

\* rag_service.py:264-267  in tenths
TitleBoostPerTerm(query, doc) ==
    2 * Cardinality({term \in Terms(Lower(query)) :
                        Len(term) > 2 /\ Contains(Lower(doc.title), term)})
TitleBoost(query, doc) ==
    IF \E term \in Terms(Lower(query)) : Len(term) > 2 /\ Contains(Lower(doc.title), term)
    THEN 2 ELSE 0

\* rag_service.py:270-272  in tenths; the raw score in thousandths
SemanticWeightInclusive(doc) == IF doc.score >= 100 THEN 3 ELSE 1
SemanticWeight(doc) == IF doc.score > 100 THEN 3 ELSE 1

\* rag_service.py:273
KeywordWeight(doc) == 10 - SemanticWeight(doc)

\* rag_service.py:275-280
RerankScore(query, doc) ==
    LET n == TermCount(query)
    IN  doc.score * SemanticWeight(doc) * n
        + Overlap(query, doc) * KeywordWeight(doc) * 1000
        + ExactMatches(query, doc) * 1500 * n
        + TitleBoost(query, doc) * 1000 * n

\* rag_service.py:283-285  sorted(..., reverse=True) is stable, then [:top_n]
SortedByRerankScore(documents, top_n) ==
    LET Rank(i) == 1 + Cardinality({j \in 1..Len(documents) :
                        \/ documents[j].rerank_score > documents[i].rerank_score
                        \/ /\ documents[j].rerank_score = documents[i].rerank_score
                           /\ j < i})
        sorted == [k \in 1..Len(documents) |->
                      documents[CHOOSE i \in 1..Len(documents) : Rank(i) = k]]
    IN  SubSeq(sorted, 1, Min(Len(sorted), top_n))

RerankQueries == {"flu", "Flu care in NY", "is it on", "Care-flu"}
RerankTitles == {"Untitled", "Flu Care", "Influenza", "NY in"}
RerankTexts == {"Flu shots are free", "no match"}
RerankScores == {50, 100, 400}
RerankDocs == [title : RerankTitles, text : RerankTexts, score : RerankScores]

RECURSIVE DocLists(_)
DocLists(n) ==
    IF n = 0 THEN {<<>>}
    ELSE {Append(docs, doc) : docs \in DocLists(n - 1), doc \in RerankDocs}

InitRerank ==
    /\ InitCommon
    /\ lock = None
    /\ threads = <<>>
    /\ ppc = "rerank_score"
    /\ cpc = "rerank"
    /\ \E query \in RerankQueries, n \in 1..MaxRerankDocs :
          \E documents \in DocLists(n) :
              run = [query |-> query, documents |-> documents, doc_i |-> 0,
                     reranked |-> <<>>]

RerankVars == <<step_messages, step_counters, save_data, cache_data, cot_cache,
                step_queue, processing_complete, result_container, cpc, out,
                published, last_call, clock, lock, threads, writes>>

\* rag_service.py:249-280  one turn of the loop: doc["rerank_score"] = ...
ScoreDocument ==
    /\ ppc = "rerank_score"
    /\ run.doc_i < Len(run.documents)
    /\ LET i == run.doc_i + 1
           doc == run.documents[i]
           scored == [title |-> doc.title, text |-> doc.text, score |-> doc.score,
                      rerank_score |-> RerankScore(run.query, doc)]
       IN  run' = [run EXCEPT !.doc_i = i, !.documents[i] = scored]
    /\ UNCHANGED <<ppc, RerankVars>>

\* rag_service.py:283-285
SortDocuments ==
    /\ ppc = "rerank_score"
    /\ run.doc_i = Len(run.documents)
    /\ run' = [run EXCEPT !.reranked = SortedByRerankScore(run.documents, RERANK_TOP_N)]
    /\ ppc' = "rerank_done"
    /\ UNCHANGED RerankVars

NextRerank == ScoreDocument \/ SortDocuments

SpecRerank == InitRerank /\ [][NextRerank]_vars

(***************************************************************************)
(* SpecPoll: one streaming request and the /realtime/latest handler.  The  *)
(* handler is a plain def, so it runs on a worker thread, outside the      *)
(* event loop: its statements interleave with the statements of            *)
(* emit_cot_step, which the event loop thread runs.                        *)
(***************************************************************************)
\* The content of the list object an entry's cot_steps refers to.  The request of
\* user_id is the only one that runs here; other requests' lists stay empty.
Deref(ref) == IF ref = StepListRef(user_id) THEN cache_data.cot_steps ELSE <<>>

IdlePoller == [pc |-> "idle", cached_data |-> None, cot_steps |-> <<>>,
               snapshot |-> None, polls |-> 0]

InitPoll ==
    /\ InitCommon
    /\ lock = None
    /\ threads = [poller |-> IdlePoller]
    /\ ppc = "start"
    /\ cpc = "poll"
    /\ run = [updates |-> 0, step |-> None, after |-> "emit"]

\* chat.py:149-167 and 278: the event loop thread reaches cot_cache.update_user_data
PushInitial ==
    /\ ppc = "start"
    /\ ppc' = "push"
    /\ UNCHANGED <<step_messages, step_counters, save_data, cache_data, cot_cache,
                   step_queue, processing_complete, result_container, cpc, run, out,
                   published, last_call, CacheClientVars>>

\* chat.py:195-247  the id, the cumulative description, the step, the save bundle
EmitPrepare ==
    /\ ppc = "emit"
    /\ run.updates < MaxUpdates
    /\ \E step_type \in NonRepeatingTypes, status \in {"active", "complete"} :
          LET sid  == EffectiveStepId(step_type, None)
              desc == EmittedDescription(sid, step_type, None, status)
              step == ChainOfThoughtStep(sid, step_type, LabelOf(step_type), desc, status)
          IN  /\ step_counters' = CountersAfter(step_type, None)
              /\ step_messages' = MessagesAfter(sid, step_type, None, status)
              /\ save_data' = [save_data EXCEPT !.cot_steps = Upsert(@, step)]
              /\ last_call' = Some([step_type |-> step_type, label |-> LabelOf(step_type),
                                    description |-> None, status |-> status,
                                    step_id |-> None, id |-> sid])
              /\ run' = [run EXCEPT !.step = Some(step), !.updates = @ + 1]
    /\ ppc' = "upsert"
    /\ UNCHANGED <<cache_data, cot_cache, step_queue, processing_complete,
                   result_container, cpc, out, published, CacheClientVars>>

\* chat.py:262-269  the step is written into the list cache_data["cot_steps"]
EmitUpsertCache ==
    /\ ppc = "upsert"
    /\ cache_data' = [cache_data EXCEPT !.cot_steps = Upsert(@, run.step[1])]
    /\ ppc' = "metadata"
    /\ UNCHANGED <<step_messages, step_counters, save_data, cot_cache, step_queue,
                   processing_complete, result_container, cpc, run, out, published,
                   last_call, CacheClientVars>>

\* chat.py:272-275
EmitMetadata ==
    /\ ppc = "metadata"
    /\ cache_data' = [cache_data EXCEPT
                         !.total_steps = Len(cache_data.cot_steps),
                         !.completed_steps = CompletedCount(cache_data.cot_steps),
                         !.active_step = ActiveStepOf(run.step[1].label, run.step[1].status)]
    /\ ppc' = "push"
    /\ run' = [run EXCEPT !.after = "put"]
    /\ UNCHANGED <<step_messages, step_counters, save_data, cot_cache, step_queue,
                   processing_complete, result_container, cpc, out, published,
                   last_call, CacheClientVars>>

\* cot_cache_service.py:30  the event loop thread takes the lock
PushAcquire ==
    /\ ppc = "push"
    /\ lock = None
    /\ lock' = Some("loop")
    /\ ppc' = "push_locked"
    /\ UNCHANGED <<step_messages, step_counters, save_data, cache_data, cot_cache,
                   step_queue, processing_complete, result_container, cpc, run, out,
                   published, last_call, clock, threads, writes>>

\* cot_cache_service.py:31-37
PushBody ==
    /\ ppc = "push_locked"
    /\ \E now \in Utcnow :
          /\ clock' = now
          /\ cot_cache' = UpdateUserData(cot_cache, user_id, cache_data, now)
          /\ writes' = Append(writes, [uid |-> user_id, data |-> cache_data, now |-> now])
    /\ ppc' = "push_release"
    /\ UNCHANGED <<step_messages, step_counters, save_data, cache_data, step_queue,
                   processing_complete, result_container, cpc, run, out, published,
                   last_call, lock, threads>>

\* cot_cache_service.py:30-37  the lock is released and update_user_data returns
PushRelease ==
    /\ ppc = "push_release"
    /\ lock' = None
    /\ ppc' = run.after
    /\ UNCHANGED <<step_messages, step_counters, save_data, cache_data, cot_cache,
                   step_queue, processing_complete, result_container, cpc, run, out,
                   published, last_call, clock, threads, writes>>

\* chat.py:280  await step_queue.put(step)
EmitPut ==
    /\ ppc = "put"
    /\ step_queue' = Append(step_queue, run.step[1])
    /\ published' = Append(published, run.step[1])
    /\ ppc' = "emit"
    /\ run' = [run EXCEPT !.step = None, !.after = "emit"]
    /\ UNCHANGED <<step_messages, step_counters, save_data, cache_data, cot_cache,
                   processing_complete, result_container, cpc, out, last_call,
                   CacheClientVars>>

PollFrame == UNCHANGED <<RequestVars, run, cot_cache, clock, writes>>

\* cot_realtime.py:25  the handler calls cot_cache.get_latest_data()
PollCall ==
    /\ threads.poller.pc = "idle"
    /\ threads.poller.polls < MaxPolls
    /\ threads' = [threads EXCEPT !.poller = [IdlePoller EXCEPT !.pc = "acquire",
                                                               !.polls = threads.poller.polls + 1]]
    /\ UNCHANGED lock
    /\ PollFrame

\* cot_cache_service.py:53
PollAcquire ==
    /\ threads.poller.pc = "acquire"
    /\ lock = None
    /\ lock' = Some("poller")
    /\ threads' = [threads EXCEPT !.poller.pc = "locked"]
    /\ PollFrame

\* cot_cache_service.py:54-63  the entry itself is returned, not a copy of it
PollBody ==
    /\ threads.poller.pc = "locked"
    /\ threads' = [threads EXCEPT !.poller.pc = "release",
                                  !.poller.cached_data = GetLatestData(cot_cache)]
    /\ UNCHANGED lock
    /\ PollFrame

\* cot_cache_service.py:53-63 the lock is released; cot_realtime.py:27-29 no data: None
PollRelease ==
    /\ threads.poller.pc = "release"
    /\ lock' = None
    /\ threads' = [threads EXCEPT !.poller.pc =
                      IF threads.poller.cached_data = None THEN "idle" ELSE "convert"]
    /\ PollFrame

\* cot_realtime.py:32-34  the steps are read from the list the entry refers to
PollConvert ==
    /\ threads.poller.pc = "convert"
    /\ threads' = [threads EXCEPT !.poller.pc = "build",
                                  !.poller.cot_steps =
                                      Deref(threads.poller.cached_data[1].cot_steps)]
    /\ UNCHANGED lock
    /\ PollFrame

\* cot_realtime.py:42-57  MessageCoTSnapshot(...) from the entry's fields and the steps
PollBuild ==
    /\ threads.poller.pc = "build"
    /\ LET entry == threads.poller.cached_data[1]
       IN  threads' = [threads EXCEPT
                          !.poller.pc = "idle",
                          !.poller.snapshot =
                              Some([assistant_response |-> entry.assistant_response,
                                    cot_steps |-> threads.poller.cot_steps,
                                    sources_count |-> entry.sources_count,
                                    suggestions_count |-> entry.suggestions_count,
                                    total_steps |-> entry.total_steps,
                                    completed_steps |-> entry.completed_steps,
                                    active_step |-> entry.active_step,
                                    last_updated |-> entry.last_updated])]
    /\ UNCHANGED lock
    /\ PollFrame

NextPoll ==
    \/ PushInitial \/ EmitPrepare \/ EmitUpsertCache \/ EmitMetadata
    \/ PushAcquire \/ PushBody \/ PushRelease \/ EmitPut
    \/ PollCall \/ PollAcquire \/ PollBody \/ PollRelease \/ PollConvert \/ PollBuild

SpecPoll == InitPoll /\ [][NextPoll]_vars

(***************************************************************************)
(* Properties.                                                             *)
(***************************************************************************)
Last(seq) == seq[Len(seq)]

IsCotStep(e) == e.type = "cot_step"
IsContent(e) == e.type = "content"

\* The steps carried by the cot_step events of a sequence of events, in order.
CotEvents(events) ==
    LET steps == SelectSeq(events, IsCotStep)
    IN  [i \in 1..Len(steps) |-> steps[i].data]

Terminal(e) == e.type \in {"done", "error"}

\* C1: the cot_step events delivered to the client are, in order, the steps put on
\* the queue: what was delivered followed by what is still queued is exactly the
\* sequence of puts (nothing reordered, dropped or merged).
C1_FifoDelivery == CotEvents(out) \o step_queue = published

C1_Witness ==
    /\ Len(CotEvents(out)) >= 3
    /\ Len(step_queue) >= 2
    /\ ppc = "llm"

\* C2: when done is emitted the queue is empty and the cot_step events are exactly
\* the published steps, one event per emit_cot_step call.
C2_NoEventLost ==
    (out # <<>> /\ Last(out).type = "done") =>
        /\ step_queue = <<>>
        /\ CotEvents(out) = published
        /\ \A i \in 1..Len(out) : IsCotStep(out[i]) => i < Len(out)

C2_Witness ==
    /\ out # <<>>
    /\ Last(out).type = "done"
    /\ Len(published) >= 10
    /\ \E i \in 1..Len(published) : published[i].step_type = "suggestions"

\* C3: the producer task sets processing_complete whenever it ends, by return or by
\* exception; and once it has ended the stream eventually emits a terminal event.
C3_ProducerSignalsCompletion ==
    /\ [](ppc = "finished" => processing_complete)
    /\ (ppc = "finished") ~> (out # <<>> /\ Terminal(Last(out)))

C3_Witness ==
    /\ ppc = "finished"
    /\ result_container.error # None
    /\ processing_complete
    /\ cpc = "closed"

\* C4: a stream holds at most one terminal event and nothing follows it; a closed
\* stream ends with error when the producer failed and with done otherwise.
C4_OneTerminalEvent ==
    /\ \A i \in 1..Len(out) : Terminal(out[i]) => i = Len(out)
    /\ cpc = "closed" =>
          /\ out # <<>>
          /\ Last(out).type = IF result_container.error # None THEN "error" ELSE "done"

C4_Witness ==
    /\ cpc = "closed"
    /\ Last(out).type = "error"
    /\ Len(CotEvents(out)) >= 3

\* The steps published by the pipeline task (the suggestions step is published by
\* the consumer itself, after the content).
IsPipelineStep(step) == step.step_type # "suggestions"

\* C5: every step published by the pipeline task is delivered before the first
\* content event, which is emitted only after the producer has signalled completion.
C5_StepsBeforeContent ==
    \A k \in 1..Len(out) :
        IsContent(out[k]) =>
            /\ processing_complete
            /\ CotEvents(SubSeq(out, 1, k - 1)) = SelectSeq(published, IsPipelineStep)

C5_Witness ==
    /\ \E k \in 1..Len(out) : IsContent(out[k])
    /\ Len(SelectSeq(published, IsPipelineStep)) >= 12

\* The ids updated so far and the status of the latest update of an id.
UpdatedIds == {published[i].id : i \in 1..Len(published)}
LatestUpdate(id) ==
    published[CHOOSE i \in 1..Len(published) :
                 /\ published[i].id = id
                 /\ \A j \in (i + 1)..Len(published) : published[j].id # id]

\* C6: total_steps is the number of distinct step ids updated so far and
\* completed_steps the number of ids whose latest update has status complete.
C6_StepCounts ==
    /\ cache_data.total_steps = Len(cache_data.cot_steps)
    /\ cache_data.total_steps = Cardinality(UpdatedIds)
    /\ cache_data.completed_steps =
          Cardinality({id \in UpdatedIds : LatestUpdate(id).status = "complete"})

C6_Witness ==
    /\ cache_data.total_steps = 2
    /\ cache_data.completed_steps = 1
    /\ Len(published) = 3
    /\ \E i \in 1..2 : published[i].status = "complete" /\ published[i].id = published[3].id
    /\ published[3].status # "complete"

\* C7 (as claimed): active_step is non-null exactly when some step of the step
\* collection currently has status active.
C7_ActiveStepIffSomeActive ==
    (cache_data.active_step # None) <=>
        (\E i \in 1..Len(cache_data.cot_steps) : cache_data.cot_steps[i].status = "active")

\* The blank-line join of the non-empty members of [A, C].
JoinNonEmpty(A, C) ==
    IF Truthy(A) /\ Truthy(C) THEN A[1] \o "\n\n" \o C[1]
    ELSE IF Truthy(A) THEN A[1]
    ELSE IF Truthy(C) THEN C[1]
    ELSE ""

\* C8: a complete update of a non-repeating step whose previous update was active
\* (description A) is emitted with the non-empty members of [A, C] joined by a blank line.
C8_ActiveThenComplete ==
    [][(/\ published' # published
        /\ last_call'[1].step_type # RepeatingType
        /\ last_call'[1].status = "complete"
        /\ last_call'[1].id \in UpdatedIds
        /\ LatestUpdate(last_call'[1].id).status = "active"
        /\ LatestUpdate(last_call'[1].id).step_type # RepeatingType)
       => Last(published').description =
             Some(JoinNonEmpty(LatestUpdate(last_call'[1].id).description,
                               last_call'[1].description))]_vars

C8_Witness ==
    /\ Len(published) >= 2
    /\ last_call[1].status = "complete"
    /\ last_call[1].step_type = "building"
    /\ Truthy(last_call[1].description)
    /\ \E i \in 1..(Len(published) - 1) :
          /\ published[i].id = "building"
          /\ published[i].status = "active"
          /\ Truthy(published[i].description)
          /\ \A j \in (i + 1)..(Len(published) - 1) : published[j].id # "building"
    /\ Last(published).description # last_call[1].description

\* The number of updates of the repeating type made so far.
RepeatingCalls == Len(SelectSeq(published, LAMBDA step : step.step_type = RepeatingType))

UpsertedInto(old, new, step) ==
    /\ \A j \in 1..Len(old) : new[j].id = old[j].id
    /\ IF \E j \in 1..Len(old) : old[j].id = step.id
       THEN /\ Len(new) = Len(old)
            /\ \A j \in 1..Len(old) :
                  new[j] = IF old[j].id = step.id THEN step ELSE old[j]
       ELSE /\ Len(new) = Len(old) + 1
            /\ \A j \in 1..Len(old) : new[j] = old[j]
            /\ new[Len(new)] = step

\* C10: a step update replaces the entry with its id in place, or is appended when
\* the id is new; every other entry, and the order of the entries, is unchanged.
C10_Upsert ==
    [][published' # published =>
          /\ UpsertedInto(cache_data.cot_steps, cache_data'.cot_steps, Last(published'))
          /\ UpsertedInto(save_data.cot_steps, save_data'.cot_steps, Last(published'))]_vars

C10_Witness ==
    /\ Len(published) = 3
    /\ Len(cache_data.cot_steps) = 2
    /\ published[3].id = cache_data.cot_steps[1].id
    /\ published[2].id = cache_data.cot_steps[2].id
    /\ published[1].id = published[3].id
    /\ published[1] # published[3]

\* The calls of get_latest_data and get_stats whose body has run and that are about
\* to release the lock: their result was computed from the cache as it is now.
CallReturning(t, op) == threads[t].pc = "release" /\ threads[t].op = op

\* C11 (as claimed): get_latest_data returns None on an empty cache and otherwise an
\* entry of maximal last_updated, which is the entry written by the most recent
\* update_user_data call.
C11_LatestIsMostRecentUpdate ==
    \A t \in CacheThreads :
        CallReturning(t, "latest") =>
            IF cot_cache = <<>> THEN threads[t].result = None
            ELSE /\ threads[t].result # None
                 /\ \A i \in 1..Len(cot_cache) :
                       LastUpdatedOf(cot_cache[i].value) <= LastUpdatedOf(threads[t].result[1])
                 /\ threads[t].result = CacheGet(cot_cache, Last(writes).uid)

\* The keys updated so far and the latest update of a key.
WrittenKeys == {writes[i].uid : i \in 1..Len(writes)}
LastWrite(uid) ==
    writes[CHOOSE i \in 1..Len(writes) :
              /\ writes[i].uid = uid
              /\ \A j \in (i + 1)..Len(writes) : writes[j].uid # uid]

\* C12: under any interleaving of concurrent update_user_data calls the cache holds
\* exactly one entry per key ever updated, the entry of a key carries every field of
\* the last update of that key with that update's timestamp, and get_stats reports
\* the number of keys.
C12_NoLostUpdate ==
    /\ CacheKeys(cot_cache) = WrittenKeys
    /\ Len(cot_cache) = Cardinality(WrittenKeys)
    /\ \A uid \in WrittenKeys :
          LET entry == CacheGet(cot_cache, uid)[1]
              w == LastWrite(uid)
          IN  /\ DOMAIN entry = DOMAIN w.data \cup {"last_updated"}
              /\ \A k \in DOMAIN w.data \ {"cot_steps", "last_updated"} : entry[k] = w.data[k]
              /\ entry.cot_steps = StepListRef(uid)
              /\ entry.last_updated = w.now
    /\ \A t \in CacheThreads :
          CallReturning(t, "stats") =>
              threads[t].result = Some([cached_users |-> Cardinality(WrittenKeys),
                                        total_entries |-> Cardinality(WrittenKeys)])

\* Two writers at once: one has written its key and still holds the lock, the other,
\* updating the other key, waits for it; an earlier update of the first key is overwritten.
C12_Witness ==
    /\ Len(writes) = 2
    /\ writes[1].uid = writes[2].uid
    /\ writes[1].data # writes[2].data
    /\ CacheGet(cot_cache, writes[2].uid)[1].assistant_response = writes[2].data.assistant_response
    /\ \E t \in CacheThreads, u \in CacheThreads :
          /\ threads[t].pc = "release" /\ threads[t].op = "update"
          /\ threads[u].pc = "acquire" /\ threads[u].op = "update"
          /\ threads[u].uid # writes[2].uid

\* C13 (as claimed): every snapshot the poller builds is the complete state passed to
\* some update_user_data call, so its counters agree with its step list.
C13_PollerSeesCompleteSnapshot ==
    threads.poller.snapshot # None =>
        LET snapshot == threads.poller.snapshot[1]
        IN  /\ snapshot.total_steps = Len(snapshot.cot_steps)
            /\ snapshot.completed_steps = CompletedCount(snapshot.cot_steps)
            /\ \E i \in 1..Len(writes) :
                  /\ writes[i].data.cot_steps = snapshot.cot_steps
                  /\ writes[i].data.total_steps = snapshot.total_steps
                  /\ writes[i].data.completed_steps = snapshot.completed_steps
                  /\ writes[i].data.active_step = snapshot.active_step

\* The text of the content events of a sequence of events, concatenated in order.
RECURSIVE ContentText(_)
ContentText(events) ==
    IF events = <<>> THEN ""
    ELSE (IF IsContent(Head(events)) THEN Head(events).data ELSE "") \o ContentText(Tail(events))

HasEvent(type) == \E i \in 1..Len(out) : out[i].type = type

\* The published step events of one type and status, as indices into published
StepIndices(step_type, status) ==
    {i \in 1..Len(published) : /\ published[i].step_type = step_type
                               /\ published[i].status = status}

CheckRaised == run.outcomes \cap {"check_input", "check_output_1", "check_output_2"} # {}

\* C14: the safety checks are fail-open.  After check_input raised, generation runs
\* (a generating step follows the last error step of the check); after check_output
\* raised, the generated text is the response; and a run in which a check raised
\* never fails: no error is recorded, no error event is sent, a closed stream ends
\* with done.
C14_ChecksFailOpen ==
    /\ CheckRaised =>
          /\ result_container.error = None
          /\ ~HasEvent("error")
          /\ cpc = "closed" => Last(out).type = "done"
    /\ ("check_input" \in run.outcomes /\ ppc # "generate") =>
          \E j \in StepIndices("generating", "active") :
              \A i \in StepIndices("checking", "error") : i < j
    /\ ("check_output_1" \in run.outcomes /\ run.round = 1 /\ ppc = "return") =>
          run.response = run.generated_text
    /\ ("check_output_2" \in run.outcomes /\ run.round = 2) =>
          /\ ppc = "return" => run.response = run.generated_text
          /\ result_container.result # None =>
                result_container.result[1].response = run.generated_text
          /\ cpc = "closed" => ContentText(out) = run.generated_text

C14_Witness ==
    /\ cpc = "closed"
    /\ {"check_input", "check_output_2"} \subseteq run.outcomes
    /\ Last(out).type = "done"
    /\ ContentText(out) = GeneratedText(MaxRespLen)

InputFlagged == "input_flagged" \in run.outcomes

\* C15: when the input check flags the query, no generating or validating step is
\* ever published in the run, the check's error step is published and streamed, and
\* the content events of the closed stream spell the refusal message of the check.
C15_FlaggedInputIsRefused ==
    /\ run.flagged =>
          \A i \in 1..Len(published) :
              published[i].step_type \notin {"generating", "validating"}
    /\ InputFlagged =>
          /\ StepIndices("checking", "error") # {}
          /\ cpc = "closed" =>
                /\ ContentText(out) = RefusalMessage
                /\ \E i \in 1..Len(out) : /\ IsCotStep(out[i])
                                          /\ out[i].data.step_type = "checking"
                                          /\ out[i].data.status = "error"

C15_Witness ==
    /\ cpc = "closed"
    /\ InputFlagged
    /\ Last(out).type = "done"
    /\ ContentText(out) = RefusalMessage
    /\ Len(SelectSeq(out, IsContent)) = 2

\* C16 (as claimed): in a run whose input check returned not allowed the suggestions
\* stage does not run: no suggestions step is published and no suggestions event sent.
C16_NoSuggestionsAfterRefusal ==
    InputFlagged =>
        /\ \A i \in 1..Len(published) : published[i].step_type # "suggestions"
        /\ ~HasEvent("suggestions")

\* C17 (as claimed): when the stream has ended, every step that was streamed with
\* status active was streamed again later, with status complete or error.
C17_NoStepLeftActive ==
    cpc = "closed" =>
        LET steps == CotEvents(out)
        IN  \A i \in 1..Len(steps) :
                steps[i].status = "active" =>
                    \E j \in (i + 1)..Len(steps) :
                        /\ steps[j].id = steps[i].id
                        /\ steps[j].status \in {"complete", "error"}

StageFailed == run.outcomes \cap {"rerank", "build_context", "generate"} # {}

RetrievalEmpty == run.outcomes \cap {"search_error", "no_docs"} # {}
WebEmpty == "web_empty" \in run.outcomes

\* C19: retrieval and web search are fail-soft.  When the vector search fails or
\* finds nothing, or the web search gives nothing, no error is recorded and no error
\* event is sent, a closed stream ends with done; the empty retrieval skips rerank
\* and context build and goes to generation with the placeholder context, and the
\* empty web search contributes its placeholder to the final context.
C19_SearchFailSoft ==
    /\ (RetrievalEmpty \/ WebEmpty) =>
          /\ result_container.error = None
          /\ ~HasEvent("error")
          /\ cpc = "closed" => Last(out).type = "done"
    /\ RetrievalEmpty =>
          /\ run.docs = 0
          /\ ppc \notin {"retrieved", "rerank", "reranking", "build_context", "building"}
          /\ \A i \in 1..Len(published) :
                published[i].step_type \notin {"reranking", "building"}
          /\ run.round = 1 => run.context = NoDocumentsContext
          /\ run.round = 2 =>
                /\ Last(run.combined_context) = NoDocumentsContext
                /\ run.context = FinalContext(run.combined_context)
                /\ run.context # ""
    /\ WebEmpty => Head(run.combined_context) = NoWebResultsContext

C19_Witness ==
    /\ cpc = "closed"
    /\ {"web_empty", "search_error"} \subseteq run.outcomes
    /\ \E i \in 1..Len(published) : published[i].step_type = "generating"
    /\ Last(out).type = "done"

\* C20: when retrieval returns no document the stream reaches done, and it holds no
\* sources event; a sources event never carries an empty list.
C20_ZeroDocumentsStillDone ==
    /\ [](RetrievalEmpty => ~HasEvent("sources"))
    /\ [](\A i \in 1..Len(out) : out[i].type = "sources" => out[i].data > 0)
    /\ RetrievalEmpty ~> (cpc = "closed" /\ Last(out).type = "done")

C20_Witness ==
    /\ cpc = "closed"
    /\ "no_docs" \in run.outcomes
    /\ Last(out).type = "done"
    /\ ~HasEvent("sources")

\* The lower-cased query holds a trigger keyword and web search is enabled
Triggered ==
    /\ run.ENABLE_WEB_SEARCH
    /\ \E i \in 1..Len(web_search_keywords) :
          Contains(Lower(run.query), web_search_keywords[i])

StepTypes(steps) == [i \in 1..Len(steps) |-> steps[i].step_type]

\* C21: the web search stage runs if and only if web search is enabled and the
\* lower-cased query holds a trigger keyword.  For the query without a keyword no
\* web_search step is published, and the closed stream is: the analyzing step active
\* then complete, retrieval steps, then the content events, then done.
C21_WebSearchIffTriggered ==
    /\ (run.query = TriggerQuery /\ run.ENABLE_WEB_SEARCH) => Triggered
    /\ run.query = PlainQuery => ~Triggered
    /\ StepIndices("web_search", "active") # {} => Triggered
    /\ (Triggered /\ ppc \notin {"not_started", "decide_tools", "analyzing", "web_search"}) =>
          /\ StepIndices("web_search", "active") # {}
          /\ \A i \in 1..Len(published) :
                published[i].step_type = "augmenting" =>
                    \E j \in StepIndices("web_search", "active") : j < i
    /\ ~Triggered =>
          /\ \A i \in 1..Len(published) : published[i].step_type # "web_search"
          /\ cpc = "closed" =>
                LET steps == CotEvents(out)
                    first_content == CHOOSE k \in 1..Len(out) :
                                        /\ IsContent(out[k])
                                        /\ \A j \in 1..(k - 1) : ~IsContent(out[j])
                IN  /\ Len(steps) >= 2
                    /\ steps[1].step_type = "analyzing" /\ steps[1].status = "active"
                    /\ steps[2].step_type = "analyzing" /\ steps[2].status = "complete"
                    /\ \E i \in 1..Len(steps) : steps[i].step_type = "searching"
                    /\ HasEvent("content")
                    /\ \A j \in 1..Len(out) :
                          (IsCotStep(out[j]) /\ out[j].data.step_type \in {"analyzing", "searching"})
                              => j < first_content
                    /\ Last(out).type = "done"

C21_Witness ==
    /\ cpc = "closed"
    /\ Triggered
    /\ run.query = TriggerQuery
    /\ \E i \in 1..Len(out) : IsCotStep(out[i]) /\ out[i].data.step_type = "web_search"
    /\ HasEvent("content")
    /\ Last(out).type = "done"

\* C22 (as claimed): when the client has gone away and the pipeline task has come to
\* its end with a result, the save of the assistant message has been attempted.
C22_DisconnectStillPersists ==
    (cpc = "cancelled" /\ ppc = "finished" /\ result_container.result # None) =>
        run.save \in {"scheduled", "saved", "failed"}

SaveAttempted == run.save \in {"scheduled", "saved", "failed"}

\* C23: the save is scheduled at most once, after the last event of the stream, and
\* only with a non-empty response text (never after a pipeline error); whether it
\* commits or fails, no event of the stream changes and none is added.
C23_SaveAfterStream ==
    /\ [](SaveAttempted =>
            /\ cpc = "closed"
            /\ Truthy(save_data.response_text)
            /\ result_container.error = None
            /\ ContentText(out) = save_data.response_text[1]
            /\ Last(out).type = "done")
    /\ [](result_container.error # None => run.save \in {"none", "skipped"})
    /\ [](run.persisted # None =>
            /\ run.save = "saved"
            /\ run.persisted[1].content = ContentText(out))
    /\ [][/\ run.save # "none" => out' = out
          /\ run.save' # run.save =>
                \/ run.save = "none" /\ run.save' \in {"scheduled", "skipped"}
                \/ run.save = "scheduled" /\ run.save' \in {"saved", "failed"}]_vars

C23_Witness ==
    /\ run.save = "failed"
    /\ Last(out).type = "done"
    /\ ContentText(out) = GeneratedText(MaxRespLen)

\* The threads inside a `with self._lock:` block
InCriticalSection == {t \in CacheThreads : threads[t].pc \in {"locked", "release"}}

\* C24: every read and write of the cache map by the five methods happens while the
\* calling thread holds the lock; at most one thread holds it; a thread whose call has
\* not entered or has returned (where its caller may suspend or do I/O) does not hold
\* it; and the holder can always take its next step, so that the lock is freed and no
\* call waits forever on a holder that cannot go on.
C24_LockDiscipline ==
    /\ [](/\ Cardinality(InCriticalSection) <= 1
          /\ \A t \in CacheThreads :
                /\ t \in InCriticalSection <=> lock = Some(t)
                /\ threads[t].pc \in {"idle", "acquire"} => lock # Some(t)
                /\ lock = Some(t) => ENABLED CriticalSection(t))
    /\ [][/\ cot_cache' # cot_cache =>
                \E t \in CacheThreads :
                    /\ lock = Some(t) /\ lock' = Some(t)
                    /\ threads[t].pc = "locked"
                    /\ threads[t].op \in {"update", "clear"}
          /\ \A t \in CacheThreads :
                /\ threads'[t].result # threads[t].result /\ threads'[t].result # None =>
                      /\ lock = Some(t) /\ lock' = Some(t)
                      /\ threads[t].op \in {"get", "latest", "stats"}
                /\ (threads[t].pc = "locked" /\ threads'[t].pc # "locked") =>
                      threads'[t].pc = "release"
                /\ (threads[t].pc = "release" /\ threads'[t].pc # "release") =>
                      threads'[t].pc = "idle" /\ lock' = None]_vars

\* One thread has cleared a key another thread had written and still holds the lock,
\* while the other thread, reading that key, waits to acquire it.
C24_Witness ==
    \E t \in CacheThreads, u \in CacheThreads :
        /\ threads[t].pc = "release" /\ threads[t].op = "clear"
        /\ lock = Some(t)
        /\ writes # <<>>
        /\ threads[t].uid = writes[1].uid
        /\ threads[t].uid \notin CacheKeys(cot_cache)
        /\ threads[u].pc = "acquire" /\ threads[u].op = "get"
        /\ threads[u].uid = threads[t].uid

\* The documents the scoring loop has been through
ScoredDocs ==
    IF "documents" \in DOMAIN run /\ "doc_i" \in DOMAIN run /\ ppc \in {"rerank_score", "rerank_done"}
    THEN {run.documents[i] : i \in 1..run.doc_i}
    ELSE {}

\* C25: the semantic weight of a document is 0.3 when its raw score is strictly above
\* 0.1 and 0.1 otherwise (0.05 and exactly 0.1 give 0.1, 0.4 gives 0.3), the keyword
\* weight is 1 minus it, and the rerank_score is built with these two weights.
C25_SemanticWeight ==
    \A doc \in ScoredDocs :
        LET w == IF doc.score > 100 THEN 3 ELSE 1
            n == TermCount(run.query)
        IN  /\ doc.score \in {50, 100} => SemanticWeight(doc) = 1
            /\ doc.score = 400 => SemanticWeight(doc) = 3
            /\ SemanticWeight(doc) = w
            /\ KeywordWeight(doc) = 10 - w
            /\ doc.rerank_score =
                  doc.score * w * n
                  + Overlap(run.query, doc) * (10 - w) * 1000
                  + ExactMatches(run.query, doc) * 1500 * n
                  + TitleBoost(run.query, doc) * 1000 * n

\* A scored document with raw score exactly 0.1 whose keyword score is not zero
C25_Witness ==
    \E doc \in ScoredDocs :
        /\ doc.score = 100
        /\ Overlap(run.query, doc) > 0
        /\ ppc = "rerank_done"
        /\ run.reranked # <<>>

\* The query terms longer than 2 characters that the lower-cased title contains
TitleTerms(doc) ==
    {term \in Terms(Lower(run.query)) : Len(term) > 2 /\ Contains(Lower(doc.title), term)}

\* C26: the title adds 0.2 to the rerank_score, once, when it contains at least one
\* query term longer than 2 characters, however many of them it contains, and adds
\* nothing otherwise.
C26_TitleBoostOnce ==
    \A doc \in ScoredDocs :
        LET untitled == [title |-> "", text |-> doc.text, score |-> doc.score]
            contribution == doc.rerank_score - RerankScore(run.query, untitled)
        IN  contribution = IF TitleTerms(doc) # {} THEN 2000 * TermCount(run.query) ELSE 0

\* A scored document whose title contains two query terms longer than 2 characters
C26_Witness ==
    \E doc \in ScoredDocs :
        /\ Cardinality(TitleTerms(doc)) >= 2
        /\ ppc = "rerank_done"

\* The place of an event in the order of a successful stream
Phase(e) ==
    CASE e.type = "status" -> 0
      [] e.type = "cot_step" /\ e.data.step_type # "suggestions" -> 1
      [] e.type = "content" -> 2
      [] e.type = "sources" -> 3
      [] e.type = "cot_step" /\ e.data.step_type = "suggestions" -> 4
      [] e.type = "suggestions" -> 5
      [] e.type = "done" -> 6
      [] OTHER -> 7

EventCount(type) == Cardinality({i \in 1..Len(out) : out[i].type = type})

\* C27: without an error event, a stream is one status event, then the cot_step
\* events of the pipeline, then the content events, then at most one sources event,
\* then the cot_step events of the suggestions stage, then at most one suggestions
\* event, then done: no content event follows a sources event and no suggestions
\* step precedes a content event.
C27_EventOrder ==
    (out # <<>> /\ ~HasEvent("error")) =>
        /\ out[1].type = "status"
        /\ EventCount("status") = 1
        /\ EventCount("sources") <= 1
        /\ EventCount("suggestions") <= 1
        /\ EventCount("done") <= 1
        /\ \A i \in 1..Len(out) : \A j \in (i + 1)..Len(out) : Phase(out[i]) <= Phase(out[j])
        /\ cpc = "closed" => Last(out).type = "done"

C27_Witness ==
    /\ cpc = "closed"
    /\ ~HasEvent("error")
    /\ {Phase(out[i]) : i \in 1..Len(out)} = 0..6
    /\ EventCount("content") > 1

\* The content events of the stream, in order
ContentEvents == SelectSeq(out, IsContent)

\* The consumer has gone past the content loop
PastContent ==
    cpc \in {"sources", "sources_yielded", "suggest", "suggest_llm", "suggest_no_llm",
             "drain", "suggestions_yielded", "finalize",
             "closed"}

StageOrder ==
    <<"analyzing", "web_search", "augmenting", "searching", "retrieved", "reranking",
      "building", "checking", "generating", "validating", "suggestions">>

StageOf(step_type) == IF step_type = RepeatingType THEN "building" ELSE step_type
StageRank(step_type) == CHOOSE r \in 1..Len(StageOrder) : StageOrder[r] = StageOf(step_type)

\* The published events of a stage, as indices into published
StageEvents(stage) == {i \in 1..Len(published) : StageOf(published[i].step_type) = stage}
ExitEvents(stage) ==
    {i \in StageEvents(stage) : /\ published[i].step_type = stage
                                /\ published[i].status \in {"complete", "error"}}

\* C29 (as claimed): the stages of a run are strictly sequential: every event of a
\* stage is published after the exit event (complete or error) of every earlier stage
\* that has run and before any event of a later stage, the analyzing_document events
\* lie between building active and building complete, and every event of the input
\* check precedes the generating active event.
C29_StagesSequential ==
    /\ \A i \in 1..Len(published) : \A j \in (i + 1)..Len(published) :
          StageRank(published[i].step_type) <= StageRank(published[j].step_type)
    /\ \A j \in 1..Len(published) :
          \A r \in 1..(StageRank(published[j].step_type) - 1) :
              StageEvents(StageOrder[r]) # {} =>
                  \E i \in ExitEvents(StageOrder[r]) : i < j
    /\ \A i \in 1..Len(published) :
          published[i].step_type = RepeatingType =>
              /\ \E j \in StepIndices("building", "active") : j < i
              /\ \A j \in StepIndices("building", "complete") : i < j
    /\ \A i \in 1..Len(published) : \A j \in StepIndices("generating", "active") :
          published[i].step_type = "checking" => i < j

\* The text of an optional description
TextOf(description) == IF description = None THEN "" ELSE description[1]

\* C30 (as claimed): a complete or error update of a non-repeating id is emitted with
\* the blank-line join of all non-empty descriptions given for the id since its latest
\* active update, or since its first update when no active update was made.
C30_CompleteAlwaysAccumulates ==
    (/\ last_call # None
     /\ last_call[1].step_type # RepeatingType
     /\ last_call[1].status \in {"complete", "error"}
     /\ "given" \in DOMAIN run) =>
        TextOf(Last(published).description) = JoinParts(run.given[Last(published).id])

\* C31: an active update of a non-repeating id sets the accumulator of the id to just
\* the given description (or to empty), so that a later complete or error update emits
\* only the text given since the latest active update; the accumulators of the other
\* ids do not change; an update of the repeating type changes no accumulator and is
\* emitted with its description as given.
C31_ActiveReinitialises ==
    [][published' # published =>
          LET call == last_call'[1]
              sid  == call.id
          IN  /\ (call.step_type # RepeatingType /\ call.status = "active") =>
                    /\ sid \in DOMAIN step_messages'
                    /\ step_messages'[sid] = IF Truthy(call.description)
                                             THEN <<call.description[1]>> ELSE <<>>
              /\ (/\ call.step_type # RepeatingType
                  /\ call.status \in {"complete", "error"}
                  /\ sid \in DOMAIN step_messages) =>
                    /\ step_messages'[sid] = run'.given[sid]
                    /\ Last(published').description = Some(JoinParts(run'.given[sid]))
              /\ DOMAIN step_messages' \subseteq DOMAIN step_messages \cup {sid}
              /\ \A other \in DOMAIN step_messages \ {sid} :
                    step_messages'[other] = step_messages[other]
              /\ call.step_type = RepeatingType =>
                    /\ step_messages' = step_messages
                    /\ Last(published').description = call.description]_vars

\* Two active updates of one id, each with a text, then a complete update: the text of
\* the first active update is not part of what the complete update emits.
C31_Witness ==
    /\ Len(published) = 3
    /\ published[1].id = published[3].id /\ published[2].id = published[3].id
    /\ published[1].status = "active" /\ published[1].description = Some(Letter(1))
    /\ published[2].status = "active" /\ published[2].description = Some(Letter(2))
    /\ published[3].status = "complete"
    /\ published[3].description = Some(Letter(2) \o "\n\n" \o Letter(3))

\* The ids of a step list are pairwise distinct
DistinctIds(steps) ==
    \A i \in 1..Len(steps) : \A j \in (i + 1)..Len(steps) : steps[i].id # steps[j].id

\* C32: a supplied step_id is the id of the emitted step; without one, an update of a
\* non-repeating type has the type as its id; all updates with one id are one record
\* of the step lists, whose ids are pairwise distinct after any sequence of updates.
C32_IdentityRule ==
    /\ last_call # None =>
          /\ last_call[1].step_id # None => Last(published).id = last_call[1].step_id[1]
          /\ (last_call[1].step_id = None /\ last_call[1].step_type # RepeatingType) =>
                Last(published).id = last_call[1].step_type
    /\ DistinctIds(cache_data.cot_steps)
    /\ DistinctIds(save_data.cot_steps)
    /\ {cache_data.cot_steps[i].id : i \in 1..Len(cache_data.cot_steps)}
          = {published[i].id : i \in 1..Len(published)}
    /\ \A i \in 1..Len(cache_data.cot_steps) :
          LET sid == cache_data.cot_steps[i].id
              latest == CHOOSE k \in 1..Len(published) :
                           /\ published[k].id = sid
                           /\ \A m \in (k + 1)..Len(published) : published[m].id # sid
          IN  cache_data.cot_steps[i] = published[latest]

\* Three updates of different step types that share one record: an explicit id equal
\* to the id the counter then gives a repeating step, and two updates with explicit id.
C32_Witness ==
    /\ Len(published) = 3
    /\ Len(cache_data.cot_steps) = 1
    /\ last_call[1].step_id = None
    /\ last_call[1].step_type = RepeatingType
    /\ published[1].step_type = "analyzing"
    /\ published[1].id = RepeatingType \o "_1"

\* The record at index i of the step list is the last update published with its id
StepApplied(steps, i) ==
    \E m \in 1..Len(published) :
        /\ published[m] = steps[i]
        /\ \A k \in (m + 1)..Len(published) : published[k].id # steps[i].id

\* Every step put on the queue is in the save bundle and in the requester's cache
\* entry, within the number of steps the entry was pushed with: its id is in both
\* lists, with the last update published for that id applied.
StepsCachedBeforeQueued ==
    published # <<>> =>
        LET entry == CacheGet(cot_cache, user_id)
        IN  /\ entry # None
            /\ entry[1].cot_steps = StepListRef(user_id)
            /\ LET steps == Deref(entry[1].cot_steps)
               IN  /\ entry[1].total_steps = Len(steps)
                   /\ {published[j].id : j \in 1..Len(published)}
                         \subseteq {steps[i].id : i \in 1..Len(steps)}
                   /\ \A i \in 1..Len(steps) : StepApplied(steps, i)
                   /\ save_data.cot_steps = steps

\* The content, sources and suggestions events of the stream, as the cache entry
\* holds them
StreamedText(entry) == entry.assistant_response = ContentText(out)
StreamedCounts(entry) ==
    /\ \A i \in 1..Len(out) : out[i].type = "sources" => entry.sources_count = out[i].data
    /\ \A i \in 1..Len(out) : out[i].type = "suggestions" => entry.suggestions_count = out[i].data

\* C33 (as claimed): every mutation of the snapshot is in the requester's cache entry
\* before it is visible on the stream: the steps before they are queued, and the text,
\* the sources and the suggestions the stream has delivered.
C33_CachedBeforeVisible ==
    out # <<>> =>
        /\ StepsCachedBeforeQueued
        /\ StreamedText(CacheGet(cot_cache, user_id)[1])
        /\ StreamedCounts(CacheGet(cot_cache, user_id)[1])

\* C33 (amended): every step update is in the save bundle and in the requester's cache
\* entry before the step is put on the queue, so a delivered cot_step event finds its
\* id in the entry with at least that update applied.  The text, the sources and the
\* suggestions are in the entry once the generator has gone on from the yield of their
\* event; while it is suspended at that yield the entry does not hold them yet.
C33_StepsCachedBeforeQueued ==
    [](out # <<>> =>
        LET entry == CacheGet(cot_cache, user_id)[1]
        IN  /\ StepsCachedBeforeQueued
            /\ cpc \notin {"content_yielded", "sources_yielded", "suggestions_yielded"} =>
                  StreamedText(entry) /\ StreamedCounts(entry)
            /\ cpc = "content_yielded" => ~StreamedText(entry) /\ StreamedCounts(entry)
            /\ cpc \in {"sources_yielded", "suggestions_yielded"} =>
                  StreamedText(entry) /\ ~StreamedCounts(entry))

\* A delivered step event whose id the entry already holds with a later update, while
\* the generator is suspended at the yield of a content event
C33_Witness ==
    /\ cpc = "content_yielded"
    /\ \E j \in 1..Len(CotEvents(out)) :
          /\ CotEvents(out)[j].status = "active"
          /\ \E i \in 1..Len(cache_data.cot_steps) :
                /\ cache_data.cot_steps[i].id = CotEvents(out)[j].id
                /\ cache_data.cot_steps[i].status = "complete"
    /\ CacheGet(cot_cache, user_id)[1].total_steps = Len(cache_data.cot_steps)

\* C34: once the done event has been emitted the run changes neither its snapshot nor
\* its save bundle and makes no update_user_data call: the cache entry it wrote last
\* stays as it is; what still runs is the save of the assistant message.
C34_ImmutableAfterDone ==
    [][HasEvent("done") =>
          /\ cache_data' = cache_data
          /\ cot_cache' = cot_cache
          /\ save_data' = save_data
          /\ step_messages' = step_messages /\ step_counters' = step_counters
          /\ published' = published /\ step_queue' = step_queue
          /\ out' = out]_vars

\* The save has committed after the done event; the entry holds the final snapshot
C34_Witness ==
    /\ HasEvent("done")
    /\ run.save = "saved"
    /\ CacheGet(cot_cache, user_id)[1].processing_time_set
    /\ CacheGet(cot_cache, user_id)[1].assistant_response = run.persisted[1].content
    /\ CacheGet(cot_cache, user_id)[1].suggestions_count > 0

\* The last published update of the steps of one type
LastStatus(step_type) ==
    LET idx == {i \in 1..Len(published) : published[i].step_type = step_type}
    IN  IF idx = {} THEN None
        ELSE Some(published[CHOOSE i \in idx : \A j \in idx : j <= i].status)

\* C35: when check_output returns not allowed, generate_response returns the safe
\* response of the check in place of the generated text.  In the call whose response
\* the agent hands on, the result read by the consumer, the content events of the
\* closed stream and the persisted content all spell the safe response; the generating
\* step was published complete before the check, and the last update of the
\* validating step has status error.
C35_FlaggedOutputReplaced ==
    /\ ("output_flagged_1" \in run.outcomes /\ run.round = 1 /\ ppc = "return") =>
          run.response = UnsafeResponse
    /\ ("output_flagged_2" \in run.outcomes) =>
          /\ run.round = 2
          /\ run.response = UnsafeResponse
          /\ run.generated_text # UnsafeResponse
          /\ result_container.result # None =>
                result_container.result[1].response = UnsafeResponse
          /\ cpc = "closed" => ContentText(out) = UnsafeResponse
          /\ run.persisted # None => run.persisted[1].content = UnsafeResponse
          /\ \E i \in StepIndices("generating", "complete") :
                \E j \in StepIndices("validating", "error") : i < j
          /\ LastStatus("validating") = Some("error")

C35_Witness ==
    /\ "output_flagged_2" \in run.outcomes
    /\ cpc = "closed"
    /\ Last(out).type = "done"
    /\ ContentText(out) = UnsafeResponse
    /\ run.persisted # None
    /\ run.persisted[1].content = UnsafeResponse
    /\ LastStatus("generating") = Some("complete")

\* The ids of a step list, in order
IdsOf(steps) == [i \in 1..Len(steps) |-> steps[i].id]

\* C36: after every step update the step list of the save bundle and the step list
\* of the cached snapshot hold the same ids in the same order with the same
\* step_type, label, status and description, one record per id, the update just
\* published among them.  An update of a new id adds its record at the end and no
\* step ever moves a record, so the order is that of first appearance.  The steps
\* persisted at stream end are the steps the requester's cache entry shows, those of
\* the suggestions stage included.
C36_ListsInLockStep ==
    /\ [](/\ Len(save_data.cot_steps) = Len(cache_data.cot_steps)
          /\ \A i \in 1..Len(save_data.cot_steps) :
                LET s == save_data.cot_steps[i]
                    c == cache_data.cot_steps[i]
                IN  /\ s.id = c.id /\ s.step_type = c.step_type /\ s.label = c.label
                    /\ s.status = c.status /\ s.description = c.description
          /\ DistinctIds(save_data.cot_steps)
          /\ published # <<>> =>
                \E i \in 1..Len(save_data.cot_steps) :
                    save_data.cot_steps[i] = Last(published)
          /\ run.persisted # None =>
                LET entry == CacheGet(cot_cache, user_id)
                IN  /\ entry # None
                    /\ run.persisted[1].chain_of_thought_steps = Deref(entry[1].cot_steps)
                    /\ run.persisted[1].chain_of_thought_steps = save_data.cot_steps)
    /\ [][/\ SubSeq(IdsOf(save_data.cot_steps'), 1, Len(save_data.cot_steps))
               = IdsOf(save_data.cot_steps)
          /\ Len(save_data.cot_steps') > Len(save_data.cot_steps) =>
                /\ Len(save_data.cot_steps') = Len(save_data.cot_steps) + 1
                /\ Len(published') = Len(published) + 1
                /\ Last(save_data.cot_steps') = Last(published')
                /\ \A j \in 1..Len(published) : published[j].id # Last(published').id]_vars

C36_Witness ==
    /\ run.persisted # None
    /\ LET steps == run.persisted[1].chain_of_thought_steps
       IN  /\ Len(steps) < Len(published)
           /\ Len(steps) >= 4
           /\ \E i \in 1..Len(steps) : steps[i].step_type = "suggestions"
           /\ steps = Deref(CacheGet(cot_cache, user_id)[1].cot_steps)

\* A step in which the consumer writes one of its own fields of the snapshot, or
\* publishes a step update of the suggestions stage
ConsumerWrite ==
    \/ cache_data'.assistant_response # cache_data.assistant_response
    \/ cache_data'.sources_count # cache_data.sources_count
    \/ cache_data'.suggestions_count # cache_data.suggestions_count
    \/ cache_data'.processing_time_set # cache_data.processing_time_set
    \/ /\ Len(published') > Len(published)
       /\ Last(published').step_type = "suggestions"

IsProducerStep(step) == step.step_type # "suggestions"

\* C37: the consumer writes assistant_response, sources_count, suggestions_count and
\* the processing time, and publishes the step updates of the suggestions stage,
\* only when the producer task has finished, has set processing_complete, and every
\* step it published has been taken from the queue and streamed; such a step leaves
\* the producer where it is.
C37_ConsumerWritesAfterProducer ==
    [][ConsumerWrite =>
          /\ ppc = "finished" /\ ppc' = "finished"
          /\ processing_complete
          /\ SelectSeq(step_queue, IsProducerStep) = <<>>
          /\ SelectSeq(CotEvents(out), IsProducerStep) = SelectSeq(published, IsProducerStep)
          /\ result_container' = result_container]_vars

C37_Witness ==
    /\ ppc = "finished"
    /\ cache_data.assistant_response = GeneratedText(MaxRespLen)
    /\ cache_data.sources_count > 0
    /\ cache_data.suggestions_count > 0
    /\ cache_data.processing_time_set
    /\ LastStatus("suggestions") = Some("complete")
    /\ Len(SelectSeq(published, IsProducerStep)) >= 4

(***************************************************************************)
(* SpecIsolation: two streaming requests in one process.  Each call of     *)
(* generate_stream has its own locals (chat.py:149-179); the cache service *)
(* is the one object they share (cot_cache_service.py:19-22).  threads     *)
(* holds the locals of each request.                                       *)
(***************************************************************************)
Requests == {"r1", "r2"}

\* chat.py:149-179  the locals of a call of generate_stream for a user
NewRequest(uid) ==
    [pc |-> "begin", user |-> uid, cache_data |-> InitialCacheData,
     save_data |-> InitialSaveData, step_queue |-> <<>>, step_messages |-> <<>>,
     step_counters |-> <<>>, out |-> <<>>, published |-> <<>>]

\* A request that writes the entry of one fixed user
CacheKeyFixed(req) == user_id
\* chat.py:167 and 278  cot_cache.update_user_data(user_id, cache_data): the key
CacheKey(req) == req.user

InitIsolation ==
    /\ InitCommon
    /\ lock = None
    /\ threads \in {t \in [Requests -> {NewRequest(u) : u \in Users}] :
                      t["r1"].user = user_id}
    /\ ppc = "isolation"
    /\ cpc = "isolation"
    /\ run = [updates |-> 0]

\* chat.py:166-179  the snapshot is cached under the user's key, the status event is
\* yielded, the queue and the accumulators are created
StartRequest(r) ==
    /\ threads[r].pc = "begin"
    /\ cot_cache' = UpdateUserData(cot_cache, CacheKey(threads[r]),
                                   threads[r].cache_data, clock)
    /\ threads' = [threads EXCEPT ![r].pc = "streaming",
                                  ![r].out = Append(@, [type |-> "status",
                                                        data |-> "starting"])]
    /\ UNCHANGED <<RequestVars, run, clock, lock, writes>>

\* chat.py:183-280  emit_cot_step on the locals of one request (no caller passes
\* step_id): the locals after the call
EmitCotStepOf(req, step_type, label, description, status) ==
    LET repeating == step_type = RepeatingType
        n     == IF step_type \in DOMAIN req.step_counters
                 THEN req.step_counters[step_type] ELSE 0
        sid   == IF repeating THEN step_type \o "_" \o ToString(n + 1) ELSE step_type
        msgs  == req.step_messages
        after == IF repeating THEN msgs
                 ELSE IF status = "active"
                 THEN DictSet(msgs, sid,
                              IF Truthy(description) THEN <<description[1]>> ELSE <<>>)
                 ELSE IF status \in {"complete", "error"} /\ sid \in DOMAIN msgs
                         /\ Truthy(description)
                 THEN DictSet(msgs, sid, Append(msgs[sid], description[1]))
                 ELSE msgs
        desc  == IF ~repeating /\ status \in {"complete", "error"} /\ sid \in DOMAIN msgs
                 THEN Some(JoinParts(after[sid]))
                 ELSE description
        step  == ChainOfThoughtStep(sid, step_type, label, desc, status)
        steps == Upsert(req.cache_data.cot_steps, step)
    IN  [req EXCEPT
            !.step_counters = IF repeating THEN DictSet(@, step_type, n + 1) ELSE @,
            !.step_messages = after,
            !.save_data = [@ EXCEPT !.cot_steps = Upsert(@, step)],
            !.cache_data = [@ EXCEPT !.cot_steps = steps,
                                     !.total_steps = Len(steps),
                                     !.completed_steps = CompletedCount(steps),
                                     !.active_step = ActiveStepOf(label, status)],
            !.step_queue = Append(@, step),
            !.published = Append(@, step)]

\* The descriptions given by a request: each request's begin with its own letter
DescriptionTag(r) == IF r = "r1" THEN "x" ELSE "y"

\* A call of emit_cot_step in one request, and its push to the cache (chat.py:278)
RequestEmit(r) ==
    /\ threads[r].pc = "streaming"
    /\ run.updates < MaxUpdates
    /\ \E step_type \in {"analyzing", RepeatingType}, status \in {"active", "complete"} :
          LET req == EmitCotStepOf(threads[r], step_type, LabelOf(step_type),
                                   Some(DescriptionTag(r) \o Letter(run.updates + 1)),
                                   status)
          IN  /\ threads' = [threads EXCEPT ![r] = req]
              /\ cot_cache' = UpdateUserData(cot_cache, CacheKey(req), req.cache_data, clock)
    /\ run' = [run EXCEPT !.updates = @ + 1]
    /\ UNCHANGED <<RequestVars, clock, lock, writes>>

\* chat.py:307-310  one request takes the head of its own queue and yields it
RequestDeliver(r) ==
    /\ threads[r].pc = "streaming"
    /\ threads[r].step_queue # <<>>
    /\ threads' = [threads EXCEPT
                      ![r].step_queue = QueueGet(@).rest,
                      ![r].out = Append(@, [type |-> "cot_step",
                                            data |-> QueueGet(threads[r].step_queue).item])]
    /\ UNCHANGED <<RequestVars, cot_cache, run, clock, lock, writes>>

NextIsolation ==
    \E r \in Requests : StartRequest(r) \/ RequestEmit(r) \/ RequestDeliver(r)

SpecIsolation == InitIsolation /\ [][NextIsolation]_vars

\* The step updates of the repeating type in a sequence of step updates
IsRepeating(step) == step.step_type = RepeatingType

\* Every step of a request on its stream, on its queue and in its lists was published
\* with a description of that request
OwnSteps(r) ==
    LET req == threads[r]
        own(step) == SubSeq(step.description[1], 1, 1) = DescriptionTag(r)
    IN  /\ CotEvents(req.out) \o req.step_queue = req.published
        /\ \A i \in 1..Len(req.published) : own(req.published[i])
        /\ \A i \in 1..Len(req.cache_data.cot_steps) : own(req.cache_data.cot_steps[i])
        /\ \A id \in DOMAIN req.step_messages :
              \A i \in 1..Len(req.step_messages[id]) :
                  SubSeq(req.step_messages[id][i], 1, 1) = DescriptionTag(r)

\* The k-th repeating step of a request has counter k
OwnCounters(r) ==
    LET rep == SelectSeq(threads[r].published, IsRepeating)
    IN  \A k \in 1..Len(rep) : rep[k].id = RepeatingType \o "_" \o ToString(k)

\* A step of one request leaves the locals of the other request and the cache entries
\* of every other user as they were
OwnWrites(r) ==
    threads'[r] # threads[r] =>
        /\ \A o \in Requests \ {r} : threads'[o] = threads[o]
        /\ \A uid \in Users \ {threads[r].user} :
              CacheGet(cot_cache', uid) = CacheGet(cot_cache, uid)
        /\ cot_cache' # cot_cache =>
              LET entry == CacheGet(cot_cache', threads[r].user)[1]
              IN  /\ entry.total_steps = Len(threads'[r].cache_data.cot_steps)
                  /\ entry.cot_steps = StepListRef(threads[r].user)

\* C38: concurrent streaming requests share nothing but the cache.  Each request's
\* stream and queue carry exactly the steps it published itself, in order; its
\* accumulators hold its own descriptions; its k-th repeating step has counter k, so
\* the first has counter 1; and a step of a request changes neither the locals of
\* another request nor the cache entry of any user but its own.
C38_RequestsIsolated ==
    /\ [](\A r \in Requests : OwnSteps(r) /\ OwnCounters(r))
    /\ [][\A r \in Requests : OwnWrites(r)]_vars

C38_Witness ==
    /\ threads["r1"].user # threads["r2"].user
    /\ CacheKeys(cot_cache) = Users
    /\ \A r \in Requests :
          /\ \E i \in 1..Len(threads[r].out) :
                /\ IsCotStep(threads[r].out[i])
                /\ threads[r].out[i].data.id = RepeatingType \o "_1"
          /\ CacheGet(cot_cache, threads[r].user)[1].total_steps
                = Len(threads[r].cache_data.cot_steps)
    /\ Len(threads["r1"].published) = 2
    /\ threads["r1"].step_queue # <<>>

SuggestionsFailed == "suggestions" \in run.outcomes

\* C39: a failure of the suggestions stage does not fail the stream.  After the call
\* of the suggestions raised, the whole response has been streamed as content, no
\* error is recorded and no error event is sent; the suggestions step ends with
\* status error and the default suggestions are the result; the closed stream
\* carries that error step and the default suggestions, and ends with the one done
\* event, which a save of the run persists with the same response.
C39_SuggestionsFailureAbsorbed ==
    SuggestionsFailed =>
        /\ result_container.error = None
        /\ ~HasEvent("error")
        /\ ContentText(out) = result_container.result[1].response
        /\ LastStatus("suggestions") = Some("error")
        /\ run.suggestions = DefaultSuggestions
        /\ \A i \in 1..Len(out) : out[i].type = "suggestions" => out[i].data = DefaultSuggestions
        /\ cpc = "closed" =>
              /\ Last(out).type = "done"
              /\ Cardinality({i \in 1..Len(out) : out[i].type = "done"}) = 1
              /\ HasEvent("suggestions")
              /\ \E i \in 1..Len(out) : /\ IsCotStep(out[i])
                                        /\ out[i].data.step_type = "suggestions"
                                        /\ out[i].data.status = "error"
        /\ run.persisted # None =>
              /\ run.persisted[1].content = ContentText(out)
              /\ run.persisted[1].suggestions = DefaultSuggestions

C39_Witness ==
    /\ SuggestionsFailed
    /\ cpc = "closed"
    /\ Last(out).type = "done"
    /\ out[Len(out) - 1].type = "suggestions"
    /\ out[Len(out) - 1].data = DefaultSuggestions
    /\ ContentText(out) = GeneratedText(MaxRespLen)
    /\ run.save = "saved"

====
